---- MODULE Spec2Model ----
(***************************************************************************)
(* State-machine model of the simulation core of axiom-world-console       *)
(* (src/app.py): the world state, the action queue and its validation,     *)
(* the tick processor, the economy rules, the autonomy policy, reset,      *)
(* scenarios, snapshot save and load.  Every HTTP handler is one atomic    *)
(* action: each handler runs inside `with WORLD_STATE_LOCK`.               *)
(*                                                                         *)
(* JSON values that reach the code unvalidated (snapshot documents,        *)
(* request payloads) are modelled as tagged values, so that the code's     *)
(* isinstance / int() / dict.get behaviour is computed, not assumed.       *)
(***************************************************************************)
EXTENDS Integers, Sequences, FiniteSets, TLC

(***************************************************************************)
(* Program constants (src/app.py:19-22).                                   *)
(***************************************************************************)
MOVE_COST_MON == 1
MARKET_ITEM_PRICE_MON == 2

(***************************************************************************)
(* Bounds of the model.                                                    *)
(* MAX_LOGS is the capacity of the log ring; the program sets it to 5000   *)
(* (src/app.py:19).  The model scales it down so that the truncation in    *)
(* log() is reached; log() itself is the code's, parametric in MAX_LOGS.   *)
(* MaxTick caps the tick counter, MaxQueue the queue length at which act   *)
(* and the autonomy step are still called, MaxAgents the agents at which   *)
(* join is still called, MaxRequests the requests served in one run.       *)
(***************************************************************************)
MAX_LOGS == 4
MaxTick == 3
MaxQueue == 2
MaxAgents == 2
MaxRequests == 4

(***************************************************************************)
(* Tagged JSON / Python values.                                            *)
(*   t = "missing"  the key is absent from the dict                        *)
(*   t = "none"     JSON null / Python None                                *)
(*   t = "int"      a Python int, value i                                  *)
(*   t = "str"      a Python str, value s                                  *)
(*   t = "bool"     a Python bool, i = 1 for True                          *)
(*   t = "obj"      a non-empty list or dict (any other truthy value)      *)
(***************************************************************************)
MissingV == [t |-> "missing", i |-> 0, s |-> ""]
NoneV == [t |-> "none", i |-> 0, s |-> ""]
ObjV == [t |-> "obj", i |-> 0, s |-> ""]
IntV(n) == [t |-> "int", i |-> n, s |-> ""]
StrV(x) == [t |-> "str", i |-> 0, s |-> x]
BoolV(b) == [t |-> "bool", i |-> IF b THEN 1 ELSE 0, s |-> ""]

\* dict.get(key): an absent key reads as None.
dict_get(v) == IF v.t = "missing" THEN NoneV ELSE v

\* dict.get(key, default): only an absent key reads as the default.
dict_get_default(v, default) == IF v.t = "missing" THEN default ELSE v

\* isinstance(v, int): Python's bool is a subclass of int.
isinstance_int(v) == v.t \in {"int", "bool"}

isinstance_str(v) == v.t = "str"

\* The strings of the model on which Python's int(str) succeeds.
DecimalStrings == ("0" :> 0) @@ ("1" :> 1) @@ ("2" :> 2) @@ ("5" :> 5) @@ ("-1" :> -1)

\* The strings s of the model with s.strip() == "".
BlankStrings == {"", " "}

to_int(value, default) ==
    CASE value.t \in {"int", "bool"} -> value.i
      [] value.t = "str" ->
            IF value.s \in DOMAIN DecimalStrings THEN DecimalStrings[value.s] ELSE default
      [] OTHER -> default

to_non_negative_int(value, default) ==
    LET parsed == to_int(value, default)
    IN  IF parsed >= 0 THEN parsed ELSE default

\* Python truthiness, bool(v).
py_bool(v) ==
    CASE v.t \in {"int", "bool"} -> v.i # 0
      [] v.t = "str" -> v.s # ""
      [] v.t = "obj" -> TRUE
      [] OTHER -> FALSE

\* A faulty max: the second argument, whatever the first.
Max_takes_second(a, b) == b

Max(a, b) == IF a >= b THEN a ELSE b

(***************************************************************************)
(* Records of the world state.                                             *)
(***************************************************************************)
\* An action payload.  kind = "dict": a dict with the four fields the code
\* reads; kind = "none": absent, None or another falsy value; kind = "bad":
\* a truthy value that is not a dict (a string, a number, a list).
Payload(kind, to, amount, text, to_agent_id) ==
    [kind |-> kind, to |-> to, amount |-> amount, text |-> text,
     to_agent_id |-> to_agent_id]

EmptyPayload == Payload("dict", MissingV, MissingV, MissingV, MissingV)
NonePayload == Payload("none", MissingV, MissingV, MissingV, MissingV)
BadPayload == Payload("bad", MissingV, MissingV, MissingV, MissingV)

MovePayload(to) == Payload("dict", to, MissingV, MissingV, MissingV)
EarnPayload(amount) == Payload("dict", MissingV, amount, MissingV, MissingV)
SayPayload(text) == Payload("dict", MissingV, MissingV, text, MissingV)
TransferPayload(to_agent_id, amount) ==
    Payload("dict", MissingV, amount, MissingV, to_agent_id)

\* `x or {}` applied to a payload.
or_empty(payload) == IF payload.kind = "none" THEN EmptyPayload ELSE payload

\* An element of action_queue.  isdict = FALSE: the element is not a dict.
Action(queued_at_tick, agent_id, type, payload) ==
    [isdict |-> TRUE, queued_at_tick |-> queued_at_tick, agent_id |-> agent_id,
     type |-> type, payload |-> payload]

NotADictAction == [isdict |-> FALSE, queued_at_tick |-> 0, agent_id |-> MissingV,
                   type |-> MissingV, payload |-> NonePayload]

\* An agent of world_state["agents"] (the name, the wallet and the entry
\* fields are carried by the code but never read by the simulation core).
Agent(id, balance_mon, pos, auto, goal) ==
    [id |-> id, balance_mon |-> balance_mon, pos |-> pos, status |-> "active",
     inventory |-> <<>>, auto |-> auto, cooldown_until_tick |-> 0, goal |-> goal,
     last_denied_reason |-> MissingV, last_denied_tick |-> MissingV]

DefaultLocations == <<"spawn", "market", "workshop">>

make_initial_world_state ==
    [tick |-> 0,
     locations |-> DefaultLocations,
     agents |-> <<>>,
     action_queue |-> <<>>,
     logs |-> <<>>,
     economy |-> [workshop_capacity_per_tick |-> 1, workshop_capacity_left |-> 1],
     entry |-> [used_tx_hashes |-> <<>>]]

(***************************************************************************)
(* log(): append one event, then drop the oldest beyond MAX_LOGS.           *)
(***************************************************************************)
LogEvent(t, event, agent_id) == [tick |-> t, event |-> event, agent_id |-> agent_id]

\* A faulty truncation: the newest events are dropped instead of the oldest.
TruncateLogs_keeps_oldest(l) ==
    IF Len(l) > MAX_LOGS THEN SubSeq(l, 1, MAX_LOGS) ELSE l

TruncateLogs(l) ==
    IF Len(l) > MAX_LOGS THEN SubSeq(l, Len(l) - MAX_LOGS + 1, Len(l)) ELSE l

log(ws, event, agent_id) ==
    [ws EXCEPT !.logs = TruncateLogs(Append(@, LogEvent(ws.tick, event, agent_id)))]

\* log("tick", {"applied_actions": applied_this_tick}): the one event whose
\* data the properties read beyond the agent id.
log_tick(ws, applied_this_tick) ==
    [ws EXCEPT !.logs = TruncateLogs(Append(@, [tick |-> ws.tick, event |-> "tick",
                                                 agent_id |-> 0,
                                                 applied_actions |-> applied_this_tick]))]

\* find_agent: the index of the first agent whose id equals agent_id, 0 when
\* there is none (the code raises HTTPException 404).  An int never equals a
\* str or None in Python; True equals 1.
find_agent(ws, agent_id) ==
    LET hits == {k \in 1..Len(ws.agents) :
                    isinstance_int(agent_id) /\ ws.agents[k].id = agent_id.i}
    IN  IF hits = {} THEN 0 ELSE CHOOSE k \in hits : \A j \in hits : k <= j

SeqMax(ids) ==
    IF ids = {} THEN 0 ELSE CHOOSE m \in ids : \A j \in ids : j <= m

\* A faulty id source: a running count of the agents instead of the maximum.
next_agent_id_by_count(ws) == Len(ws.agents) + 1

next_agent_id(ws) ==
    SeqMax({Max(ws.agents[k].id, 0) : k \in 1..Len(ws.agents)}) + 1

(***************************************************************************)
(* Entry transaction hashes.  The model's hash strings and what            *)
(* h.strip().lower() makes of each; a hash is well formed when it starts   *)
(* with "0x" and has at least 10 characters ("0xaa", "0xAA", "0xbb" and    *)
(* "0xBB" stand for 66-character hashes, "zz" for a malformed one).        *)
(***************************************************************************)
HashLower ==
    ("0xaa" :> "0xaa") @@ ("0xAA" :> "0xaa") @@ ("0xbb" :> "0xbb") @@ ("0xBB" :> "0xbb")
    @@ ("zz" :> "zz")

strip_lower(h) == HashLower[h]

well_formed_hash(hh) == hh \in {"0xaa", "0xbb"}

InSeq(x, seq) == \E k \in 1..Len(seq) : seq[k] = x

RECURSIVE normalize_hashes(_, _, _)
\* The loop `for h in used: hh = h.strip().lower(); skip malformed; skip seen
\* (when dedup); append`.
normalize_hashes(used, acc, dedup) ==
    IF used = <<>> THEN acc
    ELSE LET hh == strip_lower(Head(used))
         IN  IF ~well_formed_hash(hh) \/ (dedup /\ InSeq(hh, acc))
             THEN normalize_hashes(Tail(used), acc, dedup)
             ELSE normalize_hashes(Tail(used), Append(acc, hh), dedup)

\* A faulty reset: the used hashes are never carried over.
reset_in_place_forgets_hashes(ws, preserve_used_tx_hashes) == make_initial_world_state

reset_in_place(ws, preserve_used_tx_hashes) ==
    LET preserved_hashes ==
            IF preserve_used_tx_hashes
            THEN normalize_hashes(ws.entry.used_tx_hashes, <<>>, TRUE)
            ELSE <<>>
        fresh == make_initial_world_state
    IN  IF preserve_used_tx_hashes /\ preserved_hashes # <<>>
        THEN [fresh EXCEPT !.entry.used_tx_hashes = preserved_hashes]
        ELSE fresh

(***************************************************************************)
(* Tick processor (src/app.py:965-1126).                                   *)
(* The outcome of one queued action: the world after it, whether it was    *)
(* counted as applied, the events it logged, and the exception it raised   *)
(* ("" when none).                                                         *)
(***************************************************************************)
Outcome(ws, applied, ev, raised) ==
    [ws |-> ws, applied |-> applied, ev |-> ev, raised |-> raised]

Begin(ws) == Outcome(ws, 0, <<>>, "")

Emit(o, event, agent_id) ==
    [o EXCEPT !.ws = log(@, event, agent_id),
              !.ev = Append(@, [event |-> event, agent_id |-> agent_id])]

Applied(o) == [o EXCEPT !.applied = 1]

\* payload.get(...) on a payload that is not a dict.
Raise(o, exc) == [o EXCEPT !.raised = exc]

\* A faulty move branch: the funds check is left out.
apply_move_free(ws, k, payload) ==
    IF payload.kind = "bad" THEN Raise(Begin(ws), "AttributeError")
    ELSE
    LET agent == ws.agents[k]
        to == dict_get(payload.to)
    IN  IF to.t = "none" \/ ~isinstance_str(to) \/ ~InSeq(to.s, ws.locations)
        THEN Emit(Begin(ws), "move_denied_invalid_payload", agent.id)
        ELSE
        LET ws1 == [ws EXCEPT !.agents[k].balance_mon = @ - MOVE_COST_MON]
            o1 == Emit(Begin(ws1), "move_cost", agent.id)
            ws2 == [o1.ws EXCEPT !.agents[k].pos = to.s]
        IN  Applied(Emit([o1 EXCEPT !.ws = ws2], "move", agent.id))

\* A faulty move branch: a move to the place where the agent already is
\* does nothing.
apply_move_skips_same_place(ws, k, payload) ==
    IF payload.kind = "bad" THEN Raise(Begin(ws), "AttributeError")
    ELSE
    LET agent == ws.agents[k]
        to == dict_get(payload.to)
    IN  IF to.t = "none" \/ ~isinstance_str(to) \/ ~InSeq(to.s, ws.locations)
        THEN Emit(Begin(ws), "move_denied_invalid_payload", agent.id)
        ELSE IF to.s = agent.pos THEN Begin(ws)
        ELSE
        LET cost == MOVE_COST_MON
            bal == to_non_negative_int(IntV(agent.balance_mon), 0)
        IN  IF bal < cost
            THEN Emit(Begin(ws), "move_denied_insufficient_funds", agent.id)
            ELSE
            LET ws1 == [ws EXCEPT !.agents[k].balance_mon = bal - cost]
                o1 == Emit(Begin(ws1), "move_cost", agent.id)
                ws2 == [o1.ws EXCEPT !.agents[k].pos = to.s]
            IN  Applied(Emit([o1 EXCEPT !.ws = ws2], "move", agent.id))

apply_move(ws, k, payload) ==
    IF payload.kind = "bad" THEN Raise(Begin(ws), "AttributeError")
    ELSE
    LET agent == ws.agents[k]
        to == dict_get(payload.to)
    IN  IF to.t = "none" \/ ~isinstance_str(to) \/ ~InSeq(to.s, ws.locations)
        THEN Emit(Begin(ws), "move_denied_invalid_payload", agent.id)
        ELSE
        LET cost == MOVE_COST_MON
            bal == to_non_negative_int(IntV(agent.balance_mon), 0)
        IN  IF bal < cost
            THEN Emit(Begin(ws), "move_denied_insufficient_funds", agent.id)
            ELSE
            LET ws1 == [ws EXCEPT !.agents[k].balance_mon = bal - cost]
                o1 == Emit(Begin(ws1), "move_cost", agent.id)
                ws2 == [o1.ws EXCEPT !.agents[k].pos = to.s]
            IN  Applied(Emit([o1 EXCEPT !.ws = ws2], "move", agent.id))

\* A faulty earn branch: the capacity penalty lasts one tick instead of two.
apply_earn_short_penalty(ws, k, payload) ==
    LET agent == ws.agents[k]
    IN  IF agent.pos # "workshop"
        THEN Emit(Begin(ws), "earn_denied_wrong_location", agent.id)
        ELSE
        LET left == to_non_negative_int(IntV(ws.economy.workshop_capacity_left), 0)
        IN  IF left <= 0
            THEN
            LET o1 == Emit(Begin(ws), "earn_denied_capacity", agent.id)
                ws1 == [o1.ws EXCEPT !.agents[k].cooldown_until_tick =
                           Max(to_non_negative_int(IntV(agent.cooldown_until_tick), 0),
                               ws.tick + 1)]
                o2 == Emit([o1 EXCEPT !.ws = ws1], "cooldown_penalty", agent.id)
            IN  [o2 EXCEPT !.ws.agents[k].last_denied_reason = StrV("capacity"),
                           !.ws.agents[k].last_denied_tick = IntV(ws.tick)]
            ELSE
            IF payload.kind = "bad" THEN Raise(Begin(ws), "AttributeError")
            ELSE
            LET amount == to_int(dict_get_default(payload.amount, IntV(1)), 0)
            IN  IF amount <= 0
                THEN Emit(Begin(ws), "earn_denied_invalid_amount", agent.id)
                ELSE
                LET ws1 == [ws EXCEPT
                              !.agents[k].balance_mon =
                                  to_non_negative_int(IntV(agent.balance_mon), 0) + amount,
                              !.economy.workshop_capacity_left = left - 1]
                IN  Applied(Emit(Begin(ws1), "earn", agent.id))

\* A faulty earn branch: the place of the agent is not looked at.
apply_earn_anywhere(ws, k, payload) ==
    LET agent == ws.agents[k]
    IN
        LET left == to_non_negative_int(IntV(ws.economy.workshop_capacity_left), 0)
        IN  IF left <= 0
            THEN
            LET o1 == Emit(Begin(ws), "earn_denied_capacity", agent.id)
                penalty_until == ws.tick + 2
                ws1 == [o1.ws EXCEPT !.agents[k].cooldown_until_tick =
                           Max(to_non_negative_int(IntV(agent.cooldown_until_tick), 0),
                               penalty_until)]
                o2 == Emit([o1 EXCEPT !.ws = ws1], "cooldown_penalty", agent.id)
            IN  [o2 EXCEPT !.ws.agents[k].last_denied_reason = StrV("capacity"),
                           !.ws.agents[k].last_denied_tick = IntV(ws.tick)]
            ELSE
            IF payload.kind = "bad" THEN Raise(Begin(ws), "AttributeError")
            ELSE
            LET amount == to_int(dict_get_default(payload.amount, IntV(1)), 0)
            IN  IF amount <= 0
                THEN Emit(Begin(ws), "earn_denied_invalid_amount", agent.id)
                ELSE
                LET ws1 == [ws EXCEPT
                              !.agents[k].balance_mon =
                                  to_non_negative_int(IntV(agent.balance_mon), 0) + amount,
                              !.economy.workshop_capacity_left = left - 1]
                IN  Applied(Emit(Begin(ws1), "earn", agent.id))

apply_earn(ws, k, payload) ==
    LET agent == ws.agents[k]
    IN  IF agent.pos # "workshop"
        THEN Emit(Begin(ws), "earn_denied_wrong_location", agent.id)
        ELSE
        LET left == to_non_negative_int(IntV(ws.economy.workshop_capacity_left), 0)
        IN  IF left <= 0
            THEN
            LET o1 == Emit(Begin(ws), "earn_denied_capacity", agent.id)
                penalty_until == ws.tick + 2
                ws1 == [o1.ws EXCEPT !.agents[k].cooldown_until_tick =
                           Max(to_non_negative_int(IntV(agent.cooldown_until_tick), 0),
                               penalty_until)]
                o2 == Emit([o1 EXCEPT !.ws = ws1], "cooldown_penalty", agent.id)
            IN  [o2 EXCEPT !.ws.agents[k].last_denied_reason = StrV("capacity"),
                           !.ws.agents[k].last_denied_tick = IntV(ws.tick)]
            ELSE
            IF payload.kind = "bad" THEN Raise(Begin(ws), "AttributeError")
            ELSE
            LET amount == to_int(dict_get_default(payload.amount, IntV(1)), 0)
            IN  IF amount <= 0
                THEN Emit(Begin(ws), "earn_denied_invalid_amount", agent.id)
                ELSE
                LET ws1 == [ws EXCEPT
                              !.agents[k].balance_mon =
                                  to_non_negative_int(IntV(agent.balance_mon), 0) + amount,
                              !.economy.workshop_capacity_left = left - 1]
                IN  Applied(Emit(Begin(ws1), "earn", agent.id))

apply_say(ws, k, payload) ==
    IF payload.kind = "bad" THEN Raise(Begin(ws), "AttributeError")
    ELSE Applied(Emit(Begin(ws), "say", ws.agents[k].id))

\* A faulty transfer branch: the sender's funds are not checked.
apply_transfer_unchecked(ws, k, payload) ==
    IF payload.kind = "bad" THEN Raise(Begin(ws), "AttributeError")
    ELSE
    LET agent == ws.agents[k]
        to_agent_id == dict_get(payload.to_agent_id)
        amount == dict_get(payload.amount)
    IN  IF ~isinstance_int(to_agent_id) \/ to_agent_id.i <= 0
        THEN Emit(Begin(ws), "transfer_denied_invalid_target", agent.id)
        ELSE IF ~isinstance_int(amount) \/ amount.i <= 0
        THEN Emit(Begin(ws), "transfer_denied_invalid_amount", agent.id)
        ELSE IF to_agent_id.i = agent.id
        THEN Emit(Begin(ws), "transfer_denied_same_agent", agent.id)
        ELSE
        LET r == find_agent(ws, IntV(to_agent_id.i))
        IN  IF r = 0
            THEN Emit(Begin(ws), "transfer_denied_unknown_target", agent.id)
            ELSE
            LET ws1 == [ws EXCEPT !.agents[k].balance_mon = @ - amount.i]
                ws2 == [ws1 EXCEPT !.agents[r].balance_mon = @ + amount.i]
            IN  Applied(Emit(Begin(ws2), "transfer", agent.id))

\* A faulty transfer branch: the sender is debited but the receiver is not
\* credited.
apply_transfer_no_credit(ws, k, payload) ==
    IF payload.kind = "bad" THEN Raise(Begin(ws), "AttributeError")
    ELSE
    LET agent == ws.agents[k]
        to_agent_id == dict_get(payload.to_agent_id)
        amount == dict_get(payload.amount)
    IN  IF ~isinstance_int(to_agent_id) \/ to_agent_id.i <= 0
        THEN Emit(Begin(ws), "transfer_denied_invalid_target", agent.id)
        ELSE IF ~isinstance_int(amount) \/ amount.i <= 0
        THEN Emit(Begin(ws), "transfer_denied_invalid_amount", agent.id)
        ELSE IF to_agent_id.i = agent.id
        THEN Emit(Begin(ws), "transfer_denied_same_agent", agent.id)
        ELSE
        LET r == find_agent(ws, IntV(to_agent_id.i))
        IN  IF r = 0
            THEN Emit(Begin(ws), "transfer_denied_unknown_target", agent.id)
            ELSE
            LET sender_bal == to_non_negative_int(IntV(agent.balance_mon), 0)
            IN  IF sender_bal < amount.i
                THEN Emit(Begin(ws), "transfer_denied_insufficient_funds", agent.id)
                ELSE
                LET ws1 == [ws EXCEPT !.agents[k].balance_mon = sender_bal - amount.i]
                IN  Applied(Emit(Begin(ws1), "transfer", agent.id))

\* A faulty transfer branch: the receiver is not looked up again, and the
\* amount sent to an agent that is gone is lost.
apply_transfer_no_lookup(ws, k, payload) ==
    IF payload.kind = "bad" THEN Raise(Begin(ws), "AttributeError")
    ELSE
    LET agent == ws.agents[k]
        to_agent_id == dict_get(payload.to_agent_id)
        amount == dict_get(payload.amount)
    IN  IF ~isinstance_int(to_agent_id) \/ to_agent_id.i <= 0
        THEN Emit(Begin(ws), "transfer_denied_invalid_target", agent.id)
        ELSE IF ~isinstance_int(amount) \/ amount.i <= 0
        THEN Emit(Begin(ws), "transfer_denied_invalid_amount", agent.id)
        ELSE IF to_agent_id.i = agent.id
        THEN Emit(Begin(ws), "transfer_denied_same_agent", agent.id)
        ELSE
        LET sender_bal == to_non_negative_int(IntV(agent.balance_mon), 0)
        IN  IF sender_bal < amount.i
            THEN Emit(Begin(ws), "transfer_denied_insufficient_funds", agent.id)
            ELSE
            LET ws1 == [ws EXCEPT !.agents[k].balance_mon = sender_bal - amount.i]
                ws2 == [ws1 EXCEPT !.agents =
                           [r \in DOMAIN @ |->
                               IF @[r].id = to_agent_id.i
                               THEN [@[r] EXCEPT !.balance_mon = @ + amount.i]
                               ELSE @[r]]]
            IN  Applied(Emit(Begin(ws2), "transfer", agent.id))

apply_transfer(ws, k, payload) ==
    IF payload.kind = "bad" THEN Raise(Begin(ws), "AttributeError")
    ELSE
    LET agent == ws.agents[k]
        to_agent_id == dict_get(payload.to_agent_id)
        amount == dict_get(payload.amount)
    IN  IF ~isinstance_int(to_agent_id) \/ to_agent_id.i <= 0
        THEN Emit(Begin(ws), "transfer_denied_invalid_target", agent.id)
        ELSE IF ~isinstance_int(amount) \/ amount.i <= 0
        THEN Emit(Begin(ws), "transfer_denied_invalid_amount", agent.id)
        ELSE IF to_agent_id.i = agent.id
        THEN Emit(Begin(ws), "transfer_denied_same_agent", agent.id)
        ELSE
        LET r == find_agent(ws, IntV(to_agent_id.i))
        IN  IF r = 0
            THEN Emit(Begin(ws), "transfer_denied_unknown_target", agent.id)
            ELSE
            LET sender_bal == to_non_negative_int(IntV(agent.balance_mon), 0)
            IN  IF sender_bal < amount.i
                THEN Emit(Begin(ws), "transfer_denied_insufficient_funds", agent.id)
                ELSE
                LET ws1 == [ws EXCEPT !.agents[k].balance_mon = sender_bal - amount.i]
                    ws2 == [ws1 EXCEPT !.agents[r].balance_mon =
                               to_non_negative_int(IntV(ws1.agents[r].balance_mon), 0)
                               + amount.i]
                IN  Applied(Emit(Begin(ws2), "transfer", agent.id))

\* The body of `for action in queue:` for one action.
process_action(ws, action) ==
    IF ~action.isdict THEN Emit(Begin(ws), "action_skipped_invalid", 0)
    ELSE
    LET agent_id == dict_get(action.agent_id)
    IN  IF agent_id.t = "none" THEN Emit(Begin(ws), "action_skipped_invalid", 0)
        ELSE
        LET k == find_agent(ws, agent_id)
        IN  IF k = 0 THEN Emit(Begin(ws), "action_skipped_unknown_agent", 0)
            ELSE
            LET a_type == dict_get(action.type)
                payload == or_empty(action.payload)
            IN  IF a_type.t = "none" THEN Emit(Begin(ws), "action_skipped_invalid", 0)
                ELSE IF a_type = StrV("move") THEN apply_move(ws, k, payload)
                ELSE IF a_type = StrV("earn") THEN apply_earn(ws, k, payload)
                ELSE IF a_type = StrV("say") THEN apply_say(ws, k, payload)
                ELSE IF a_type = StrV("transfer") THEN apply_transfer(ws, k, payload)
                ELSE Begin(ws)

\* What one loop iteration can change: the agents and the capacity left.
Observed(ws) == [agents |-> ws.agents, left |-> ws.economy.workshop_capacity_left]

\* What the loop leaves of one processed action: the events it logged,
\* whether it was applied, what it raised, and the agents and capacity
\* before and after it.
Processed(ws, o) ==
    [ev |-> o.ev, applied |-> o.applied, raised |-> o.raised,
     pre |-> Observed(ws), post |-> Observed(o.ws)]

RECURSIVE run_queue(_, _, _, _)
RECURSIVE next_action(_, _, _, _, _)
\* `for action in queue:` over the detached queue, from index n on; outs
\* collects what was processed.
run_queue(ws, queue, n, outs) ==
    IF n > Len(queue) THEN [ws |-> ws, outs |-> outs, raised |-> ""]
    ELSE next_action(ws, queue, n, outs, process_action(ws, queue[n]))

\* The loop after the action at index n had outcome o: an exception leaves
\* the loop, and the handler, at once.
next_action(ws, queue, n, outs, o) ==
    IF o.raised # ""
    THEN [ws |-> o.ws, outs |-> Append(outs, Processed(ws, o)), raised |-> o.raised]
    ELSE run_queue(o.ws, queue, n + 1, Append(outs, Processed(ws, o)))

RECURSIVE SumApplied(_)
SumApplied(outs) ==
    IF outs = <<>> THEN 0 ELSE Head(outs).applied + SumApplied(Tail(outs))

\* The end of one iteration of `for _ in range(steps):`, r being what the
\* queue loop returned: applied_total += applied_this_tick; log("tick").
\* The step record keeps the counter, the capacity left before the reset,
\* the capacity after it, the detached queue and what was processed.
end_of_step(t, left_before, cap_per_tick, queue, r) ==
    LET step == [tick |-> t, left_before |-> left_before, cap_reset |-> cap_per_tick,
                 queue |-> queue, outs |-> r.outs, applied |-> SumApplied(r.outs)]
    IN  IF r.raised # ""
        THEN [ws |-> r.ws, step |-> step, raised |-> r.raised]
        ELSE [ws |-> log_tick(r.ws, SumApplied(r.outs)), step |-> step, raised |-> ""]

\* A faulty step: the capacity left is carried over instead of reset.
tick_step_no_reset(ws) ==
    LET ws1 == [ws EXCEPT !.tick = @ + 1]
        cap0 == to_non_negative_int(IntV(ws1.economy.workshop_capacity_per_tick), 1)
        cap_per_tick == IF cap0 <= 0 THEN 1 ELSE cap0
        queue == ws1.action_queue
        ws3 == [ws1 EXCEPT !.action_queue = <<>>]
    IN  end_of_step(ws1.tick, ws.economy.workshop_capacity_left, cap_per_tick, queue,
                    run_queue(ws3, queue, 1, <<>>))

RECURSIVE Reverse(_)
Reverse(q) == IF q = <<>> THEN <<>> ELSE Append(Reverse(Tail(q)), Head(q))

\* A faulty step: the detached queue is processed last-in first-out.
tick_step_lifo(ws) ==
    LET ws1 == [ws EXCEPT !.tick = @ + 1]
        cap0 == to_non_negative_int(IntV(ws1.economy.workshop_capacity_per_tick), 1)
        cap_per_tick == IF cap0 <= 0 THEN 1 ELSE cap0
        ws2 == [ws1 EXCEPT !.economy.workshop_capacity_left = cap_per_tick]
        queue == ws2.action_queue
        ws3 == [ws2 EXCEPT !.action_queue = <<>>]
    IN  end_of_step(ws1.tick, ws.economy.workshop_capacity_left, cap_per_tick, queue,
                    run_queue(ws3, Reverse(queue), 1, <<>>))

\* One iteration of `for _ in range(steps):`.
tick_step(ws) ==
    LET ws1 == [ws EXCEPT !.tick = @ + 1]
        cap0 == to_non_negative_int(IntV(ws1.economy.workshop_capacity_per_tick), 1)
        cap_per_tick == IF cap0 <= 0 THEN 1 ELSE cap0
        ws2 == [ws1 EXCEPT !.economy.workshop_capacity_left = cap_per_tick]
        queue == ws2.action_queue
        ws3 == [ws2 EXCEPT !.action_queue = <<>>]
    IN  end_of_step(ws1.tick, ws.economy.workshop_capacity_left, cap_per_tick, queue,
                    run_queue(ws3, queue, 1, <<>>))

RECURSIVE applied_total(_)
\* applied_total += applied_this_tick, over the steps made.
applied_total(trace) ==
    IF trace = <<>> THEN 0 ELSE Head(trace).applied + applied_total(Tail(trace))

RECURSIVE tick_steps(_, _, _)
RECURSIVE next_step(_, _, _)
\* `for _ in range(steps):` with `steps` iterations left; after the last one
\* the handler returns applied_total as "applied_actions".
tick_steps(ws, steps, trace) ==
    IF steps = 0
    THEN [ws |-> ws, trace |-> trace, raised |-> "",
          applied_actions |-> applied_total(trace)]
    ELSE next_step(steps, trace, tick_step(ws))

\* The loop after an iteration that returned r.
next_step(steps, trace, r) ==
    IF r.raised # ""
    THEN [ws |-> r.ws, trace |-> Append(trace, r.step), raised |-> r.raised,
          applied_actions |-> 0]
    ELSE tick_steps(r.ws, steps - 1, Append(trace, r.step))

\* tick(steps): the handler; the counter is first re-read as a non-negative int.
tick_handler(ws, steps) ==
    tick_steps([ws EXCEPT !.tick = to_non_negative_int(IntV(@), 0)], steps, <<>>)

(***************************************************************************)
(* Handlers that raise HTTPException leave a result record: the world      *)
(* after the call (mutations made before the raise stay), "ok" or the      *)
(* exception's name, and the HTTP status code (200 when ok).               *)
(***************************************************************************)
Ok(ws) == [ws |-> ws, result |-> "ok", code |-> 200]
HttpError(ws, code) == [ws |-> ws, result |-> "HTTPException", code |-> code]

(***************************************************************************)
(* POST /act (src/app.py:808-856).  req = [agent_id, type, payload]: the   *)
(* request model makes agent_id an int, type one of the four literals and  *)
(* payload a dict.                                                         *)
(***************************************************************************)
ActRequest(agent_id, type, payload) ==
    [agent_id |-> agent_id, type |-> type, payload |-> payload]

act_payload_valid(ws, req) ==
    LET payload == or_empty(req.payload)
    IN  CASE req.type = "move" ->
                LET to == dict_get(payload.to)
                IN  ~(to.t = "none" \/ ~isinstance_str(to) \/ ~InSeq(to.s, ws.locations))
          [] req.type = "earn" ->
                LET amount == dict_get_default(payload.amount, IntV(1))
                IN  ~(~isinstance_int(amount) \/ amount.i <= 0)
          [] req.type = "say" ->
                LET text == dict_get_default(payload.text, StrV(""))
                IN  ~(~isinstance_str(text) \/ text.s \in BlankStrings)
          [] req.type = "transfer" ->
                LET to_agent_id == dict_get(payload.to_agent_id)
                    amount == dict_get(payload.amount)
                IN  /\ ~(~isinstance_int(to_agent_id) \/ to_agent_id.i <= 0)
                    /\ ~(~isinstance_int(amount) \/ amount.i <= 0)
                    /\ to_agent_id.i # req.agent_id
          [] OTHER -> TRUE

\* A faulty enqueue: the transfer receiver is not looked up.
act_handler_no_receiver_check(ws, req) ==
    IF find_agent(ws, IntV(req.agent_id)) = 0 THEN HttpError(ws, 404)
    ELSE IF ~act_payload_valid(ws, req) THEN HttpError(ws, 400)
    ELSE
    LET action == Action(ws.tick, IntV(req.agent_id), StrV(req.type),
                         or_empty(req.payload))
        ws1 == [ws EXCEPT !.action_queue = Append(@, action)]
    IN  Ok(log(ws1, "queued_action", req.agent_id))

act_handler(ws, req) ==
    IF find_agent(ws, IntV(req.agent_id)) = 0 THEN HttpError(ws, 404)
    ELSE IF ~act_payload_valid(ws, req) THEN HttpError(ws, 400)
    ELSE IF req.type = "transfer"
            /\ find_agent(ws, IntV(dict_get(or_empty(req.payload).to_agent_id).i)) = 0
    THEN HttpError(ws, 404)
    ELSE
    LET action == Action(ws.tick, IntV(req.agent_id), StrV(req.type),
                         or_empty(req.payload))
        ws1 == [ws EXCEPT !.action_queue = Append(@, action)]
    IN  Ok(log(ws1, "queued_action", req.agent_id))

(***************************************************************************)
(* POST /join (src/app.py:735-795) and verify_entry_tx (587-640).          *)
(* rpc is what the environment answers to the verification: "ok",          *)
(* "rpc_error" (an _rpc_call failure, which logs monad_rpc_error), or      *)
(* "rejected" (misconfiguration, transaction not found, wrong recipient,   *)
(* insufficient fee: no log).                                              *)
(***************************************************************************)
verify_entry_tx(ws, tx_hash, rpc) ==
    LET txh == strip_lower(tx_hash)
    IN  IF InSeq(txh, ws.entry.used_tx_hashes) THEN HttpError(ws, 409)
        ELSE IF rpc = "rpc_error" THEN HttpError(log(ws, "monad_rpc_error", 0), 503)
        ELSE IF rpc = "rejected" THEN HttpError(ws, 400)
        ELSE Ok(ws)

new_agent(ws, balance_mon, auto, goal) ==
    Agent(next_agent_id(ws), balance_mon, "spawn", auto, goal)

\* A faulty join: the agent is added without looking at the entry hash.
join_handler_ungated(ws, allow_free_join, deposit_mon, entry_tx_hash, rpc) ==
    Ok(log([ws EXCEPT !.agents = Append(@, new_agent(ws, deposit_mon, FALSE, "earn"))],
           "join", next_agent_id(ws)))

join_handler(ws, allow_free_join, deposit_mon, entry_tx_hash, rpc) ==
    LET gate ==
            IF allow_free_join THEN Ok(ws)
            ELSE IF entry_tx_hash = "" THEN HttpError(log(ws, "entry_denied_missing_tx", 0), 402)
            ELSE
            LET v == verify_entry_tx(ws, entry_tx_hash, rpc)
            IN  IF v.result # "ok" THEN v
                ELSE Ok(log([v.ws EXCEPT !.entry.used_tx_hashes =
                                 Append(@, strip_lower(entry_tx_hash))],
                            "entry_verified", 0))
    IN  IF gate.result # "ok" THEN gate
        ELSE
        LET agent == new_agent(gate.ws, deposit_mon, FALSE, "earn")
            ws1 == [gate.ws EXCEPT !.agents = Append(@, agent)]
        IN  Ok(log(ws1, "join", agent.id))

(***************************************************************************)
(* POST /market/buy (src/app.py:868-959).                                  *)
(***************************************************************************)
RECURSIVE Repeat(_, _)
Repeat(x, n) == IF n = 0 THEN <<>> ELSE <<x>> \o Repeat(x, n - 1)

market_buy(ws, agent_id, qty, payment_proof) ==
    LET k == find_agent(ws, IntV(agent_id))
    IN  IF k = 0 THEN HttpError(ws, 404)
        ELSE
        LET agent == ws.agents[k]
            price == MARKET_ITEM_PRICE_MON * qty
            bal == agent.balance_mon
        IN  IF agent.status # "active" THEN HttpError(ws, 400)
            ELSE IF agent.pos # "market" THEN HttpError(ws, 400)
            ELSE IF bal < price
            THEN HttpError(log(ws, "buy_denied_insufficient_funds", agent.id), 402)
            ELSE
            LET ws1 == [ws EXCEPT !.agents[k].balance_mon = bal - price,
                                  !.agents[k].inventory = @ \o Repeat("scrap", qty)]
                ws2 == log(ws1, "buy", agent.id)
            IN  Ok(IF payment_proof THEN log(ws2, "buy_payment_proof_seen", agent.id)
                   ELSE ws2)

(***************************************************************************)
(* POST /reset, /scenario/basic, /scenario/basic_auto (1132-1201).         *)
(***************************************************************************)
\* A faulty reset: the log survives the reset.
reset_handler_keeps_logs(ws, allow_free_join) ==
    log([reset_in_place(ws, ~allow_free_join) EXCEPT !.logs = ws.logs], "reset", 0)

reset_handler(ws, allow_free_join) ==
    log(reset_in_place(ws, ~allow_free_join), "reset", 0)

\* One iteration of the scenario's `for a in agents:` loop.
scenario_add(ws, deposit_mon, auto, goal, basic_auto) ==
    LET agent == new_agent(ws, deposit_mon, auto, goal)
        ws1 == log([ws EXCEPT !.agents = Append(@, agent)], "join", agent.id)
        ws2 == IF basic_auto /\ agent.auto THEN log(ws1, "auto_enabled", agent.id) ELSE ws1
    IN  IF basic_auto THEN log(ws2, "goal_set", agent.id) ELSE ws2

scenario_basic(ws, allow_free_join) ==
    LET w0 == reset_in_place(ws, ~allow_free_join)
        w1 == scenario_add(w0, 10, FALSE, "earn", FALSE)
        w2 == scenario_add(w1, 2, FALSE, "earn", FALSE)
        w3 == scenario_add(w2, 0, FALSE, "earn", FALSE)
    IN  log(w3, "scenario_loaded", 0)

scenario_basic_auto(ws, allow_free_join) ==
    LET w0 == reset_in_place(ws, ~allow_free_join)
        w1 == scenario_add(w0, 10, TRUE, "earn", TRUE)
        w2 == scenario_add(w1, 2, TRUE, "wander", TRUE)
        w3 == scenario_add(w2, 0, TRUE, "earn", TRUE)
    IN  log(w3, "scenario_loaded", 0)

(***************************************************************************)
(* Autonomy policy (src/app.py:1420-1690).                                 *)
(***************************************************************************)
FirstIndex(x, seq) == CHOOSE k \in 1..Len(seq) : seq[k] = x /\ \A j \in 1..(k - 1) : seq[j] # x

\* A faulty policy step: the cooldown is left as it was.
set_cooldown_skipped(ws, k, until) == ws

\* A faulty pick: always the first location.
pick_first_location(ws, current) ==
    IF ws.locations = <<>> THEN current ELSE ws.locations[1]

pick_next_location(ws, current) ==
    LET locs == ws.locations
    IN  IF locs = <<>> THEN current
        ELSE IF ~InSeq(current, locs) THEN locs[1]
        ELSE IF Len(locs) = 1 THEN current
        ELSE locs[(FirstIndex(current, locs) % Len(locs)) + 1]

\* A faulty enqueue: the action is tagged with tick 0.
queue_action_untagged(ws, agent_id, a_type, payload) ==
    LET action == Action(0, IntV(agent_id), StrV(a_type), payload)
    IN  log([ws EXCEPT !.action_queue = Append(@, action)], "queued_action", agent_id)

queue_action(ws, agent_id, a_type, payload) ==
    LET action == Action(ws.tick, IntV(agent_id), StrV(a_type), payload)
    IN  log([ws EXCEPT !.action_queue = Append(@, action)], "queued_action", agent_id)

\* A decision: the world after it, the action chosen (a sequence of length 0
\* or 1) and the branch of the policy that decided.
Decision(ws, chosen, branch) == [ws |-> ws, chosen |-> chosen, branch |-> branch]

\* agent.pop("last_denied_reason", None); agent.pop("last_denied_tick", None)
pop_denied(ws, k) ==
    [ws EXCEPT !.agents[k].last_denied_reason = MissingV,
               !.agents[k].last_denied_tick = MissingV]

\* A faulty policy step: the cooldown is set two ticks too far.
set_cooldown_too_far(ws, k, until) == [ws EXCEPT !.agents[k].cooldown_until_tick = until + 2]

set_cooldown(ws, k, until) == [ws EXCEPT !.agents[k].cooldown_until_tick = until]

\* chosen = _queue_action(id, "move", {"to": to}) if to != pos else None,
\* followed by the auto_decision event.
decide_move(ws, k, to, branch) ==
    LET agent == ws.agents[k]
        ws1 == IF to # agent.pos
               THEN queue_action(ws, agent.id, "move", MovePayload(StrV(to)))
               ELSE ws
        chosen == IF to # agent.pos THEN <<ws1.action_queue[Len(ws1.action_queue)]>>
                  ELSE <<>>
    IN  Decision(log(ws1, "auto_decision", agent.id), chosen, branch)

\* A faulty policy: the cooldown gate is missing.
auto_policy_goal_no_gate(ws, k, tick_now) ==
    LET agent == ws.agents[k]
        pos == agent.pos
        goal == agent.goal
        bal == to_non_negative_int(IntV(agent.balance_mon), 0)
    IN  IF goal = "idle"
        THEN Decision(set_cooldown(log(ws, "auto_decision", agent.id), k, tick_now + 1),
                      <<>>, "idle")
        ELSE IF goal = "wander"
        THEN IF bal < MOVE_COST_MON
             THEN Decision(set_cooldown(log(ws, "auto_decision", agent.id), k, tick_now + 1),
                           <<>>, "wander_no_funds")
             ELSE LET d == decide_move(ws, k, pick_next_location(ws, pos), "wander")
                  IN  [d EXCEPT !.ws = set_cooldown(@, k, tick_now + 1)]
        ELSE IF pos # "workshop"
        THEN IF bal < MOVE_COST_MON
             THEN Decision(set_cooldown(log(ws, "auto_decision", agent.id), k, tick_now + 1),
                           <<>>, "earn_no_funds")
             ELSE LET ws1 == queue_action(ws, agent.id, "move", MovePayload(StrV("workshop")))
                      chosen == <<ws1.action_queue[Len(ws1.action_queue)]>>
                  IN  Decision(set_cooldown(log(ws1, "auto_decision", agent.id), k,
                                            tick_now + 1),
                               chosen, "earn_move")
        ELSE LET ws1 == queue_action(ws, agent.id, "earn", EarnPayload(IntV(1)))
                 chosen == <<ws1.action_queue[Len(ws1.action_queue)]>>
             IN  Decision(set_cooldown(log(ws1, "auto_decision", agent.id), k, tick_now + 1),
                          chosen, "earn")

auto_policy_goal(ws, k, tick_now) ==
    LET agent == ws.agents[k]
        pos == agent.pos
        goal == agent.goal
        bal == to_non_negative_int(IntV(agent.balance_mon), 0)
        cooldown_until == to_non_negative_int(IntV(agent.cooldown_until_tick), 0)
    IN  IF tick_now < cooldown_until
        THEN Decision(log(ws, "auto_decision", agent.id), <<>>, "cooldown")
        ELSE IF goal = "idle"
        THEN Decision(set_cooldown(log(ws, "auto_decision", agent.id), k, tick_now + 1),
                      <<>>, "idle")
        ELSE IF goal = "wander"
        THEN IF bal < MOVE_COST_MON
             THEN Decision(set_cooldown(log(ws, "auto_decision", agent.id), k, tick_now + 1),
                           <<>>, "wander_no_funds")
             ELSE LET d == decide_move(ws, k, pick_next_location(ws, pos), "wander")
                  IN  [d EXCEPT !.ws = set_cooldown(@, k, tick_now + 1)]
        ELSE IF pos # "workshop"
        THEN IF bal < MOVE_COST_MON
             THEN Decision(set_cooldown(log(ws, "auto_decision", agent.id), k, tick_now + 1),
                           <<>>, "earn_no_funds")
             ELSE LET ws1 == queue_action(ws, agent.id, "move", MovePayload(StrV("workshop")))
                      chosen == <<ws1.action_queue[Len(ws1.action_queue)]>>
                  IN  Decision(set_cooldown(log(ws1, "auto_decision", agent.id), k,
                                            tick_now + 1),
                               chosen, "earn_move")
        ELSE LET ws1 == queue_action(ws, agent.id, "earn", EarnPayload(IntV(1)))
                 chosen == <<ws1.action_queue[Len(ws1.action_queue)]>>
             IN  Decision(set_cooldown(log(ws1, "auto_decision", agent.id), k, tick_now + 1),
                          chosen, "earn")

auto_policy_for_agent(ws, k) ==
    LET agent == ws.agents[k]
        tick_now == to_non_negative_int(IntV(ws.tick), 0)
        pos == agent.pos
        bal == to_non_negative_int(IntV(agent.balance_mon), 0)
        last_reason == dict_get(agent.last_denied_reason)
        last_tick == dict_get(agent.last_denied_tick)
        cooldown_now == to_non_negative_int(IntV(agent.cooldown_until_tick), 0)
    IN  IF last_reason = StrV("capacity") /\ last_tick.t # "none"
        THEN IF tick_now <= to_non_negative_int(last_tick, 0) + 1
             THEN IF bal < MOVE_COST_MON
                  THEN Decision(set_cooldown(pop_denied(log(ws, "auto_decision", agent.id), k),
                                             k, Max(cooldown_now, tick_now + 1)),
                                <<>>, "reactive_no_funds")
                  ELSE LET d == decide_move(ws, k, pick_next_location(ws, pos), "reactive")
                       IN  [d EXCEPT !.ws = set_cooldown(pop_denied(@, k), k,
                                                         Max(cooldown_now, tick_now + 1))]
             ELSE auto_policy_goal(pop_denied(ws, k), k, tick_now)
        ELSE auto_policy_goal(ws, k, tick_now)

RECURSIVE auto_step_loop(_, _, _, _, _)
\* `for agent in agents:` from index k on; count is the number of eligible
\* agents decided for so far, ds the decisions made.
auto_step_loop(ws, k, count, limit_agents, ds) ==
    IF k > Len(ws.agents) \/ count >= limit_agents THEN [ws |-> ws, ds |-> ds]
    ELSE IF ws.agents[k].auto = TRUE /\ ws.agents[k].status = "active"
    THEN LET d == auto_policy_for_agent(ws, k)
         IN  auto_step_loop(d.ws, k + 1, count + 1, limit_agents,
                            Append(ds, [k |-> k, chosen |-> d.chosen, branch |-> d.branch]))
    ELSE auto_step_loop(ws, k + 1, count, limit_agents, ds)

\* A faulty autonomy step: limit_agents is ignored.
auto_step_internal_no_limit(ws, limit_agents) ==
    auto_step_loop(ws, 1, 0, Len(ws.agents), <<>>)

auto_step_internal(ws, limit_agents) == auto_step_loop(ws, 1, 0, limit_agents, <<>>)

\* The number of actions generated by an autonomy step ("n").
Generated(ds) == Cardinality({j \in 1..Len(ds) : ds[j].chosen # <<>>})

\* tick(steps=1) at the end of POST /auto/tick, ds being the decisions of
\* the autonomy step and t what tick returned.
tick_result(ds, t) ==
    [ws |-> t.ws, ds |-> ds, trace |-> t.trace, raised |-> t.raised,
     applied_actions |-> t.applied_actions]

\* POST /auto/tick after the autonomy step returned st: world_idle when it
\* generated nothing, then tick(steps=1).
auto_tick_after(st) ==
    tick_result(st.ds,
                     tick_handler(IF Generated(st.ds) = 0
                                  THEN log(st.ws, "world_idle", 0)
                                  ELSE st.ws, 1))

\* POST /auto/tick.
auto_tick(ws, limit_agents) == auto_tick_after(auto_step_internal(ws, limit_agents))

\* POST /auto/enable, /auto/disable, /auto/goal (1443-1491).
auto_enable(ws, agent_id) ==
    LET k == find_agent(ws, IntV(agent_id))
    IN  IF k = 0 THEN HttpError(ws, 404)
        ELSE Ok(log([ws EXCEPT !.agents[k].auto = TRUE], "auto_enabled", ws.agents[k].id))

auto_disable(ws, agent_id) ==
    LET k == find_agent(ws, IntV(agent_id))
    IN  IF k = 0 THEN HttpError(ws, 404)
        ELSE Ok(log([ws EXCEPT !.agents[k].auto = FALSE], "auto_disabled", ws.agents[k].id))

auto_set_goal(ws, agent_id, goal) ==
    LET k == find_agent(ws, IntV(agent_id))
    IN  IF k = 0 THEN HttpError(ws, 404)
        ELSE Ok(log([ws EXCEPT !.agents[k].goal = goal], "goal_set", ws.agents[k].id))

(***************************************************************************)
(* Snapshot load (src/app.py:254-402).  A snapshot document is what        *)
(* json.loads makes of the file: doc.kind tells which structural check it  *)
(* fails ("ok" when none), doc.world_state is the raw "world_state" object.*)
(***************************************************************************)
\* A JSON value read where a list is expected: islist = FALSE when the key is
\* absent or holds something else.
NoList == [islist |-> FALSE, items |-> <<>>]
ListV(items) == [islist |-> TRUE, items |-> items]

RawAgent(id, pos, balance_mon, auto, cooldown_until_tick, goal, last_denied_reason, last_denied_tick) ==
    [isdict |-> TRUE, id |-> id, pos |-> pos, balance_mon |-> balance_mon,
     status |-> StrV("active"), inventory |-> NoList, auto |-> auto,
     cooldown_until_tick |-> cooldown_until_tick, goal |-> goal,
     last_denied_reason |-> last_denied_reason, last_denied_tick |-> last_denied_tick]

NotADictAgent ==
    [isdict |-> FALSE, id |-> MissingV, pos |-> MissingV, balance_mon |-> MissingV,
     status |-> MissingV, inventory |-> NoList, auto |-> MissingV, cooldown_until_tick |-> MissingV,
     goal |-> MissingV, last_denied_reason |-> MissingV, last_denied_tick |-> MissingV]

RawEconomy(per_tick, left) ==
    [isdict |-> TRUE, workshop_capacity_per_tick |-> per_tick,
     workshop_capacity_left |-> left]

RawWorld(t, locs, ags, queue, lg, econ, used) ==
    [tick |-> t, locations |-> locs, agents |-> ags, action_queue |-> queue,
     logs |-> lg, economy |-> econ, used_tx_hashes |-> used]

Snapshot(kind, raw) == [kind |-> kind, world_state |-> raw]

allowed_goals == {"earn", "wander", "idle"}

\* The body of `for a in base["agents"]:` for an agent that is kept.
normalize_agent(a) ==
    [id |-> to_int(dict_get(a.id), 0),
     pos |-> IF isinstance_str(a.pos) THEN a.pos.s ELSE "spawn",
     balance_mon |-> to_non_negative_int(dict_get_default(a.balance_mon, IntV(0)), 0),
     status |-> IF isinstance_str(a.status) THEN a.status.s ELSE "active",
     inventory |-> IF a.inventory.islist THEN a.inventory.items ELSE <<>>,
     auto |-> py_bool(dict_get_default(a.auto, BoolV(FALSE))),
     cooldown_until_tick |->
         to_non_negative_int(dict_get_default(a.cooldown_until_tick, IntV(0)), 0),
     goal |-> IF isinstance_str(a.goal) /\ a.goal.s \in allowed_goals
              THEN a.goal.s ELSE "earn",
     last_denied_reason |-> a.last_denied_reason,
     last_denied_tick |-> a.last_denied_tick]

RECURSIVE normalize_agents(_)
normalize_agents(ags) ==
    IF ags = <<>> THEN <<>>
    ELSE LET a == Head(ags)
         IN  IF ~a.isdict \/ to_int(dict_get(a.id), 0) <= 0
             THEN normalize_agents(Tail(ags))
             ELSE <<normalize_agent(a)>> \o normalize_agents(Tail(ags))

\* `a.get("goal") not in allowed_goals` raises TypeError (unhashable) when the
\* goal of an agent that is kept is a list or a dict; nothing is caught.
normalize_raises(loaded) ==
    \E j \in 1..Len(loaded.agents) :
        /\ loaded.agents[j].isdict
        /\ to_int(dict_get(loaded.agents[j].id), 0) > 0
        /\ loaded.agents[j].goal.t = "obj"

normalize_economy(econ) ==
    LET e == IF econ.isdict THEN econ ELSE RawEconomy(MissingV, MissingV)
        cap0 == to_non_negative_int(dict_get_default(e.workshop_capacity_per_tick, IntV(1)), 1)
        cap_per_tick == IF cap0 <= 0 THEN 1 ELSE cap0
        cap_left == to_non_negative_int(
                        dict_get_default(e.workshop_capacity_left, IntV(cap_per_tick)),
                        cap_per_tick)
    IN  [workshop_capacity_per_tick |-> cap_per_tick, workshop_capacity_left |-> cap_left]

normalize_loaded_state(loaded) ==
    [tick |-> to_non_negative_int(dict_get_default(loaded.tick, IntV(0)), 0),
     locations |-> loaded.locations,
     agents |-> normalize_agents(loaded.agents),
     action_queue |-> loaded.action_queue,
     logs |-> loaded.logs,
     economy |-> normalize_economy(loaded.economy),
     entry |-> [used_tx_hashes |-> normalize_hashes(loaded.used_tx_hashes, <<>>, FALSE)]]

\* A faulty load: the live world is cleared before the document is checked.
load_world_state_clears_first(ws, allow_free_join, doc) ==
    IF doc.kind = "missing" THEN HttpError(ws, 404)
    ELSE IF doc.kind # "ok" THEN HttpError(make_initial_world_state, 400)
    ELSE IF normalize_raises(doc.world_state)
    THEN [ws |-> ws, result |-> "TypeError", code |-> 500]
    ELSE
    LET existing_used ==
            IF ~allow_free_join
            THEN normalize_hashes(ws.entry.used_tx_hashes, <<>>, FALSE)
            ELSE <<>>
        normalized == normalize_loaded_state(doc.world_state)
        merged ==
            IF ~allow_free_join /\ existing_used # <<>>
            THEN [normalized EXCEPT !.entry.used_tx_hashes =
                      normalize_hashes(@ \o existing_used, <<>>, TRUE)]
            ELSE normalized
    IN  Ok(log(merged, "persist_load", 0))

load_world_state(ws, allow_free_join, doc) ==
    IF doc.kind = "missing" THEN HttpError(ws, 404)
    ELSE IF doc.kind # "ok" THEN HttpError(ws, 400)
    ELSE IF normalize_raises(doc.world_state)
    THEN [ws |-> ws, result |-> "TypeError", code |-> 500]
    ELSE
    LET existing_used ==
            IF ~allow_free_join
            THEN normalize_hashes(ws.entry.used_tx_hashes, <<>>, FALSE)
            ELSE <<>>
        normalized == normalize_loaded_state(doc.world_state)
        merged ==
            IF ~allow_free_join /\ existing_used # <<>>
            THEN [normalized EXCEPT !.entry.used_tx_hashes =
                      normalize_hashes(@ \o existing_used, <<>>, TRUE)]
            ELSE normalized
    IN  Ok(log(merged, "persist_load", 0))

(***************************************************************************)
(* Snapshot save (src/app.py:217-252, 428-436): the world state written as *)
(* a JSON document, every field as the JSON value that json.dumps makes of *)
(* it.                                                                     *)
(***************************************************************************)
\* json.dumps of one agent dict.
dump_agent(agent) ==
    [isdict |-> TRUE, id |-> IntV(agent.id), pos |-> StrV(agent.pos),
     balance_mon |-> IntV(agent.balance_mon), status |-> StrV(agent.status),
     inventory |-> ListV(agent.inventory), auto |-> BoolV(agent.auto),
     cooldown_until_tick |-> IntV(agent.cooldown_until_tick), goal |-> StrV(agent.goal),
     last_denied_reason |-> agent.last_denied_reason,
     last_denied_tick |-> agent.last_denied_tick]

\* A faulty save: the action queue is left out of the document.
save_world_state_without_queue(ws, include_logs) ==
    Snapshot("ok",
             RawWorld(IntV(ws.tick), ws.locations,
                      [k \in 1..Len(ws.agents) |-> dump_agent(ws.agents[k])],
                      <<>>,
                      IF include_logs THEN ws.logs ELSE <<>>,
                      RawEconomy(IntV(ws.economy.workshop_capacity_per_tick),
                                 IntV(ws.economy.workshop_capacity_left)),
                      ws.entry.used_tx_hashes))

save_world_state(ws, include_logs) ==
    Snapshot("ok",
             RawWorld(IntV(ws.tick), ws.locations,
                      [k \in 1..Len(ws.agents) |-> dump_agent(ws.agents[k])],
                      ws.action_queue,
                      IF include_logs THEN ws.logs ELSE <<>>,
                      RawEconomy(IntV(ws.economy.workshop_capacity_per_tick),
                                 IntV(ws.economy.workshop_capacity_left)),
                      ws.entry.used_tx_hashes))

\* POST /persist/save: the event is logged before the snapshot is taken.
persist_save(ws, include_logs) ==
    [ws |-> log(ws, "persist_save", 0),
     file |-> save_world_state(log(ws, "persist_save", 0), include_logs)]

(***************************************************************************)
(* Inputs of the operations.                                               *)
(***************************************************************************)
AgentIds == 1..3

Deposits == {0, 2}

\* "" stands for a request without entry_tx_hash.
TxHashes == {"", "0xaa", "0xAA"}

RpcAnswers == {"ok", "rpc_error", "rejected"}

\* Requests of agent 1: every validation outcome of every type.
ActPayloads(type) ==
    CASE type = "move" ->
            {MovePayload(StrV("workshop")), MovePayload(StrV("market")),
             MovePayload(StrV("moon")),
             MovePayload(IntV(1)), NonePayload}
      [] type = "earn" ->
            {NonePayload, EarnPayload(IntV(0)), EarnPayload(StrV("1"))}
      [] type = "say" ->
            {SayPayload(StrV("hi")), SayPayload(StrV(" ")), NonePayload}
      [] type = "transfer" ->
            {TransferPayload(IntV(2), IntV(1)), TransferPayload(IntV(2), IntV(3)),
             TransferPayload(IntV(2), IntV(0)), TransferPayload(IntV(2), StrV("1")),
             TransferPayload(IntV(0), IntV(1)), TransferPayload(StrV("2"), IntV(1)),
             TransferPayload(IntV(1), IntV(1)), TransferPayload(IntV(3), IntV(1)),
             NonePayload}

ActRequests ==
    UNION {{ActRequest(1, ty, p) : p \in ActPayloads(ty)} :
           ty \in {"move", "earn", "say", "transfer"}}
    \cup {ActRequest(2, "earn", EarnPayload(IntV(2))),
          ActRequest(3, "say", SayPayload(StrV("hi")))}

\* Queue elements only a snapshot can hold.
LoadedActions ==
    {NotADictAction,
     Action(0, MissingV, StrV("earn"), NonePayload),
     Action(0, IntV(9), StrV("say"), SayPayload(StrV("hi"))),
     Action(0, StrV("1"), StrV("earn"), NonePayload),
     Action(0, IntV(1), MissingV, NonePayload),
     Action(0, IntV(1), StrV("dance"), NonePayload),
     Action(0, IntV(1), StrV("move"), BadPayload),
     Action(0, IntV(1), StrV("move"), MovePayload(StrV("moon"))),
     Action(0, IntV(1), StrV("earn"), BadPayload),
     Action(0, IntV(1), StrV("earn"), EarnPayload(StrV("oops"))),
     Action(0, IntV(1), StrV("earn"), EarnPayload(StrV("2"))),
     Action(0, IntV(1), StrV("say"), BadPayload),
     Action(0, IntV(1), StrV("transfer"), TransferPayload(IntV(9), IntV(1))),
     Action(0, IntV(1), StrV("transfer"), TransferPayload(IntV(2), IntV(5))),
     Action(0, IntV(1), StrV("transfer"), TransferPayload(IntV(2), StrV("1"))),
     Action(0, IntV(1), StrV("transfer"), TransferPayload(IntV(1), IntV(1))),
     Action(0, IntV(1), StrV("transfer"), BadPayload)}

\* One loaded action alone, and in front of a well-formed earn of agent 2.
LoadedQueues ==
    {<<a>> : a \in LoadedActions}
    \cup {<<a, Action(0, IntV(2), StrV("earn"), EarnPayload(IntV(1)))>> : a \in LoadedActions}

\* Two agents at the workshop, as in the tests' snapshots.
WorkshopAgents ==
    <<RawAgent(IntV(1), StrV("workshop"), IntV(2), BoolV(FALSE), IntV(0), StrV("earn"),
               MissingV, MissingV),
      RawAgent(IntV(2), StrV("workshop"), IntV(0), BoolV(FALSE), IntV(0), StrV("earn"),
               MissingV, MissingV)>>

\* Agent lists with gaps, malformed fields and entries that are dropped.
LoadedAgentLists ==
    {<<RawAgent(IntV(2), StrV("spawn"), IntV(0), BoolV(FALSE), IntV(0), StrV("earn"),
                MissingV, MissingV)>>,
     <<NotADictAgent,
       RawAgent(StrV("2"), IntV(7), IntV(-1), IntV(1), StrV("oops"), StrV("fly"),
                StrV("capacity"), StrV("1")),
       RawAgent(IntV(0), StrV("spawn"), IntV(5), BoolV(TRUE), IntV(0), StrV("earn"),
                MissingV, MissingV)>>,
     <<RawAgent(IntV(1), StrV("moon"), StrV("5"), BoolV(TRUE), IntV(0), StrV("wander"),
                StrV("capacity"), IntV(0))>>,
     <<RawAgent(IntV(1), StrV("spawn"), IntV(1), BoolV(TRUE), IntV(0), ObjV,
                MissingV, MissingV)>>}

LoadedEconomies ==
    {RawEconomy(StrV("1"), StrV("1")), RawEconomy(IntV(2), IntV(2)),
     RawEconomy(IntV(1), IntV(5)), RawEconomy(IntV(0), IntV(-1)),
     [isdict |-> FALSE, workshop_capacity_per_tick |-> MissingV,
      workshop_capacity_left |-> MissingV]}

EmptyRawWorld ==
    RawWorld(IntV(0), DefaultLocations, <<>>, <<>>, <<>>, RawEconomy(IntV(1), IntV(1)), <<>>)

FailingSnapshots ==
    {Snapshot(k, EmptyRawWorld) :
        k \in {"missing", "invalid_json", "not_object", "bad_version", "bad_world_state"}}

\* Snapshots with the workshop agents and a loaded queue.
QueueSnapshot(q) ==
    Snapshot("ok", [EmptyRawWorld EXCEPT !.agents = WorkshopAgents,
                                         !.action_queue = q])

\* A saved log that is one event longer than the ring.
LongLog == [j \in 1..(MAX_LOGS + 1) |-> LogEvent(0, "say", j)]

\* The snapshots of the whole-system specification.
Snapshots ==
    FailingSnapshots
    \cup {QueueSnapshot(<<a, Action(0, IntV(2), StrV("earn"), EarnPayload(IntV(1)))>>) :
            a \in {Action(0, IntV(1), StrV("move"), BadPayload),
                   Action(0, IntV(1), StrV("move"), MovePayload(StrV("moon"))),
                   Action(0, IntV(1), StrV("dance"), NonePayload),
                   Action(0, IntV(9), StrV("say"), SayPayload(StrV("hi")))}}
    \cup {Snapshot("ok", [EmptyRawWorld EXCEPT !.tick = StrV("oops"), !.agents = ags,
                                               !.used_tx_hashes = <<"0xAA", "zz">>]) :
            ags \in LoadedAgentLists}
    \cup {Snapshot("ok", [EmptyRawWorld EXCEPT !.agents = WorkshopAgents, !.economy = e]) :
            e \in {RawEconomy(IntV(2), IntV(2)), RawEconomy(IntV(1), IntV(5))}}
    \cup {Snapshot("ok", [EmptyRawWorld EXCEPT !.logs = LongLog])}

\* The snapshots of the tick-processor specification: every loaded queue and
\* every loaded economy.
QueueSnapshots ==
    {QueueSnapshot(q) : q \in LoadedQueues}
    \cup {Snapshot("ok", [EmptyRawWorld EXCEPT !.agents = WorkshopAgents, !.economy = e]) :
            e \in LoadedEconomies}

(***************************************************************************)
(* Worker threads and the world lock.  The handlers are plain `def`        *)
(* functions, which the server runs in worker threads; WORLD_STATE_LOCK    *)
(* (src/app.py:47) is a threading.RLock, and every POST handler body is    *)
(* one `with WORLD_STATE_LOCK:` block.  The GET handlers take no lock.     *)
(* A lock is [owner, count]: owner 0 when no thread holds it.              *)
(***************************************************************************)
Threads == {1, 2}

\* RLock(): not owned.
FreeLock == [owner |-> 0, count |-> 0]

\* A faulty lock: the holds of the owner are not counted, as with a plain
\* Lock that lets its owner through.
acquire_uncounted(lock, t) == [owner |-> t, count |-> 1]

\* RLock.acquire() by thread t, which returns at once when the lock is free
\* or already owned by t (and blocks otherwise).
acquire(lock, t) == [owner |-> t, count |-> lock.count + 1]

\* A faulty block exit: the lock is released on return but not on a raise.
with_exit_return_only(lock, how) ==
    IF how = "raise" THEN lock
    ELSE IF lock.count <= 1 THEN FreeLock ELSE [lock EXCEPT !.count = @ - 1]

\* Leaving a `with WORLD_STATE_LOCK:` block, by return or by a raise:
\* RLock.release(), the owner giving the lock up with its last hold.
with_exit(lock, how) ==
    IF lock.count <= 1 THEN FreeLock ELSE [lock EXCEPT !.count = @ - 1]

\* A thread between two requests; ended tells how its last handler ended.
\* The other fields are those of a thread in a handler: the handler and
\* the label it is at, the `with` blocks it is in, its arguments, tick's
\* local `queue`, and the world as it was when the lock was taken; for
\* join, the entry hash of the request and what the RPC node will answer
\* to its verification; for a handler that calls another one, the label
\* it resumes at when the call returns.
Idle(ended) ==
    [op |-> "idle", at |-> "idle", depth |-> 0,
     req |-> ActRequest(0, "", NonePayload),
     doc |-> Snapshot("missing", EmptyRawWorld),
     limit_agents |-> 0, queue |-> <<>>, pre |-> make_initial_world_state,
     entry_tx_hash |-> "", rpc |-> "ok", resume |-> "return",
     ended |-> ended]

\* tick, steps = 1, up to the detaching of the queue (src/app.py:968-988).
tick_begin(ws) ==
    LET ws0 == [ws EXCEPT !.tick = to_non_negative_int(IntV(@), 0) + 1]
        cap0 == to_non_negative_int(IntV(ws0.economy.workshop_capacity_per_tick), 1)
        cap_per_tick == IF cap0 <= 0 THEN 1 ELSE cap0
    IN  [ws0 EXCEPT !.economy.workshop_capacity_left = cap_per_tick,
                    !.action_queue = <<>>]

\* POST /demo/run (src/app.py:1218-1248): the basic scenario if there is
\* no agent, a move of the first agent to workshop and a tick, then an earn
\* of 3 and a say and tick(steps); the actions are appended without a log
\* entry.  An exception of the first tick leaves the handler.
demo_run(ws, allow_free_join, steps) ==
    LET w == IF ws.agents = <<>> THEN scenario_basic(ws, allow_free_join) ELSE ws
        t1 == tick_handler([w EXCEPT !.action_queue =
                              Append(@, Action(w.tick, IntV(w.agents[1].id), StrV("move"),
                                               MovePayload(StrV("workshop"))))], 1)
    IN  IF t1.raised # "" THEN t1.ws
        ELSE tick_handler([t1.ws EXCEPT !.action_queue =
                             @ \o <<Action(t1.ws.tick, IntV(w.agents[1].id), StrV("earn"),
                                           EarnPayload(IntV(3))),
                                    Action(t1.ws.tick, IntV(w.agents[1].id), StrV("say"),
                                           SayPayload(StrV("demo tick run")))>>],
                          steps).ws

\* The statements of the handlers between two points where another thread
\* can run, for a thread at p in the world ws: the world and the label
\* they lead to.
\*   begin      tick to the detaching of the queue
\*   queue      tick's queue loop and its log entry
\*   find       act to the append to the queue (the validation may raise)
\*   log        act's log entry
\*   step       auto_tick to its call of tick
\*   body       persist_load
\*   gate       join to the first _rpc_call of verify_entry_tx (735-603),
\*              or to its end when no call is made
\*   rpc        join from the answer of the RPC node to its end
\*   demo       demo_run to its call of scenario_basic, if it makes it
\*   scenario   scenario_basic
\*   demo_move  demo_run's first append, to its first call of tick
\*   demo_earn  demo_run's two appends, to its second call of tick
statement(p, ws, allow_free_join) ==
    CASE p.at = "begin" -> [ws |-> tick_begin(ws), at |-> "queue"]
      [] p.at = "gate" ->
            IF ~allow_free_join /\ p.entry_tx_hash # ""
               /\ ~InSeq(strip_lower(p.entry_tx_hash), ws.entry.used_tx_hashes)
            THEN [ws |-> ws, at |-> "rpc"]
            ELSE [ws |-> join_handler(ws, allow_free_join, 0, p.entry_tx_hash, p.rpc).ws,
                  at |-> IF join_handler(ws, allow_free_join, 0, p.entry_tx_hash,
                                         p.rpc).result = "ok"
                         THEN "return" ELSE "raise"]
      [] p.at = "demo" ->
            [ws |-> ws, at |-> IF ws.agents = <<>> THEN "scenario_lock" ELSE "demo_move"]
      [] p.at = "scenario" ->
            [ws |-> scenario_basic(ws, allow_free_join), at |-> "return"]
      [] p.at = "demo_move" ->
            [ws |-> [ws EXCEPT !.action_queue =
                       Append(@, Action(ws.tick, IntV(ws.agents[1].id), StrV("move"),
                                        MovePayload(StrV("workshop"))))],
             at |-> "tick_lock"]
      [] p.at = "demo_earn" ->
            [ws |-> [ws EXCEPT !.action_queue =
                       @ \o <<Action(ws.tick, IntV(ws.agents[1].id), StrV("earn"),
                                     EarnPayload(IntV(3))),
                              Action(ws.tick, IntV(ws.agents[1].id), StrV("say"),
                                     SayPayload(StrV("demo tick run")))>>],
             at |-> "tick_lock"]
      [] p.at = "rpc" ->
            [ws |-> join_handler(ws, allow_free_join, 0, p.entry_tx_hash, p.rpc).ws,
             at |-> IF join_handler(ws, allow_free_join, 0, p.entry_tx_hash,
                                    p.rpc).result = "ok"
                    THEN "return" ELSE "raise"]
      [] p.at = "queue" ->
            IF run_queue(ws, p.queue, 1, <<>>).raised = ""
            THEN [ws |-> log_tick(run_queue(ws, p.queue, 1, <<>>).ws,
                                  SumApplied(run_queue(ws, p.queue, 1, <<>>).outs)),
                  at |-> "return"]
            ELSE [ws |-> run_queue(ws, p.queue, 1, <<>>).ws, at |-> "raise"]
      [] p.at = "find" ->
            IF act_handler(ws, p.req).result # "ok"
            THEN [ws |-> ws, at |-> "raise"]
            ELSE [ws |-> [ws EXCEPT !.action_queue =
                            Append(@, Action(ws.tick, IntV(p.req.agent_id),
                                             StrV(p.req.type), or_empty(p.req.payload)))],
                  at |-> "log"]
      [] p.at = "log" ->
            [ws |-> log(ws, "queued_action", p.req.agent_id), at |-> "return"]
      [] p.at = "step" ->
            [ws |-> IF Generated(auto_step_internal(ws, p.limit_agents).ds) = 0
                    THEN log(auto_step_internal(ws, p.limit_agents).ws, "world_idle", 0)
                    ELSE auto_step_internal(ws, p.limit_agents).ws,
             at |-> "tick_lock"]
      [] p.at = "body" ->
            [ws |-> load_world_state(ws, allow_free_join, p.doc).ws,
             at |-> IF load_world_state(ws, allow_free_join, p.doc).result = "ok"
                    THEN "return" ELSE "raise"]

\* The whole effect of the handler a thread is in, on the world before it.
effect(p, allow_free_join) ==
    CASE p.op = "tick" -> tick_handler(p.pre, 1).ws
      [] p.op = "act" -> act_handler(p.pre, p.req).ws
      [] p.op = "auto_tick" -> auto_tick(p.pre, p.limit_agents).ws
      [] p.op = "load" -> load_world_state(p.pre, allow_free_join, p.doc).ws
      [] p.op = "join" ->
            join_handler(p.pre, allow_free_join, 0, p.entry_tx_hash, p.rpc).ws
      [] p.op = "demo_run" -> demo_run(p.pre, allow_free_join, 1)
      [] OTHER -> p.pre

\* GET /world (src/app.py:702-712): what it returns of a world.
get_world(ws) ==
    [tick |-> ws.tick, locations |-> ws.locations, agents |-> ws.agents,
     queued_actions |-> Len(ws.action_queue), logs |-> Len(ws.logs),
     economy |-> ws.economy]

\* An answer of GET /world, with what it would have been before and
\* after the mutation that was running.
Answer(ws, before, after) ==
    [response |-> get_world(ws), before |-> get_world(before),
     after |-> get_world(after)]

(***************************************************************************)
(* The state machine.                                                      *)
(*   world_state      the process-wide dict                                *)
(*   ALLOW_FREE_JOIN  the configuration flag, fixed at start-up            *)
(*   last             the last handler call: its name, how it ended, its   *)
(*                    HTTP status, its count argument, and for tick and    *)
(*                    the autonomy step what each step and decision did    *)
(*   WORLD_STATE_LOCK the re-entrant lock: its owner and hold count        *)
(*   pc               where each worker thread is in its handler           *)
(*   seen             what the last GET /world answered                    *)
(*   REQUIRE_API_KEY, WORLD_GATE_KEY                                       *)
(*                    the API key configuration, fixed at start-up         *)
(*   request          the last request that met the API key guard: its     *)
(*                    method and the value of its key header ("" if none)  *)
(***************************************************************************)
VARIABLES world_state, ALLOW_FREE_JOIN, last, requests, snapshot_file,
          WORLD_STATE_LOCK, pc, seen, REQUIRE_API_KEY, WORLD_GATE_KEY, request

vars == <<world_state, ALLOW_FREE_JOIN, last, requests, snapshot_file,
          WORLD_STATE_LOCK, pc, seen, REQUIRE_API_KEY, WORLD_GATE_KEY, request>>

\* What start-up fixes (src/app.py:118-120, 456).
config == <<ALLOW_FREE_JOIN, REQUIRE_API_KEY, WORLD_GATE_KEY>>

Last(op, result, code, n, trace, ds) ==
    [op |-> op, result |-> result, code |-> code, n |-> n, trace |-> trace, ds |-> ds,
     applied_actions |-> 0]

Init ==
    /\ world_state = make_initial_world_state
    /\ ALLOW_FREE_JOIN \in BOOLEAN
    /\ last = Last("start", "ok", 200, 0, <<>>, <<>>)
    /\ requests = 0
    /\ snapshot_file = Snapshot("missing", EmptyRawWorld)
    /\ WORLD_STATE_LOCK = FreeLock
    /\ pc = [t \in Threads |-> Idle("")]
    /\ seen = Answer(make_initial_world_state, make_initial_world_state,
                     make_initial_world_state)
    /\ REQUIRE_API_KEY = FALSE
    /\ WORLD_GATE_KEY = ""
    /\ request = [method |-> "POST", header |-> ""]

\* One more request served by the process, which never changes its mode.
\* A handler taken as one step runs alone: no thread is inside another.
\* The API key guard is off unless a specification turns it on.
Served ==
    /\ requests < MaxRequests
    /\ requests' = requests + 1
    /\ UNCHANGED <<config, WORLD_STATE_LOCK, pc, seen, request>>

\* A handler that ends with a result record r.
Returns(op, r, n) ==
    /\ world_state' = r.ws
    /\ last' = Last(op, r.result, r.code, n, <<>>, <<>>)
    /\ UNCHANGED snapshot_file
    /\ Served

Reset ==
    Returns("reset", Ok(reset_handler(world_state, ALLOW_FREE_JOIN)), 0)

ScenarioBasic ==
    Returns("scenario_basic", Ok(scenario_basic(world_state, ALLOW_FREE_JOIN)), 0)

ScenarioBasicAuto ==
    Returns("scenario_basic_auto", Ok(scenario_basic_auto(world_state, ALLOW_FREE_JOIN)), 0)

Join ==
    /\ Len(world_state.agents) < MaxAgents
    /\ \E d \in Deposits, h \in TxHashes, rpc \in RpcAnswers :
          Returns("join", join_handler(world_state, ALLOW_FREE_JOIN, d, h, rpc), d)

Act ==
    /\ Len(world_state.action_queue) < MaxQueue
    /\ \E req \in ActRequests :
          Returns("act", act_handler(world_state, req), req.agent_id)

MarketBuy ==
    \E a \in {1, 3}, qty \in {1, 2}, proof \in BOOLEAN :
        Returns("market_buy", market_buy(world_state, a, qty, proof), qty)

\* tick and auto_tick end with r: the world, the decisions, the steps' trace,
\* the exception that left the handler ("" when it returned) and the
\* applied_actions tick returned.
Ticked(op, r, n) ==
    /\ world_state' = r.ws
    /\ last' = [Last(op, IF r.raised = "" THEN "ok" ELSE r.raised,
                     IF r.raised = "" THEN 200 ELSE 500, n, r.trace, r.ds)
                EXCEPT !.applied_actions = r.applied_actions]
    /\ UNCHANGED snapshot_file
    /\ Served

Tick ==
    \E steps \in 1..2 :
        /\ world_state.tick + steps <= MaxTick
        /\ Ticked("tick", tick_result(<<>>, tick_handler(world_state, steps)), steps)

\* An autonomy step ends with r: the world and the decisions.
AutoStepped(r, n) ==
    /\ world_state' = r.ws
    /\ last' = Last("auto_step", "ok", 200, n, <<>>, r.ds)
    /\ UNCHANGED snapshot_file
    /\ Served

AutoStep ==
    /\ Len(world_state.action_queue) < MaxQueue
    /\ \E limit_agents \in 1..2 :
          AutoStepped(auto_step_internal(world_state, limit_agents), limit_agents)

AutoTick ==
    /\ world_state.tick + 1 <= MaxTick
    /\ \E limit_agents \in 1..2 :
          Ticked("auto_tick", auto_tick(world_state, limit_agents), limit_agents)

AutoEnable ==
    \E a \in {1, 3} : Returns("auto_enable", auto_enable(world_state, a), a)

AutoSetGoal ==
    \E a \in {1, 3}, g \in allowed_goals :
        Returns("auto_set_goal", auto_set_goal(world_state, a, g), a)

Load ==
    \E doc \in Snapshots :
        Returns("load", load_world_state(world_state, ALLOW_FREE_JOIN, doc), 0)

Next ==
    \/ Reset
    \/ ScenarioBasic
    \/ ScenarioBasicAuto
    \/ Join
    \/ Act
    \/ MarketBuy
    \/ Tick
    \/ AutoStep
    \/ AutoTick
    \/ AutoEnable
    \/ AutoSetGoal
    \/ Load

Spec == Init /\ [][Next]_vars

(***************************************************************************)
(* The tick processor on every loaded queue: snapshot load, act and tick.  *)
(***************************************************************************)
LoadQueue ==
    \E doc \in QueueSnapshots :
        Returns("load", load_world_state(world_state, ALLOW_FREE_JOIN, doc), 0)

NextTick ==
    \/ LoadQueue
    \/ Act
    \/ Tick

SpecTick == Init /\ [][NextTick]_vars

(***************************************************************************)
(* The autonomy policy on loaded agents: snapshot load, the auto scenario, *)
(* the autonomy step, auto tick and goal changes.                          *)
(***************************************************************************)
\* A wanderer at spawn that can pay three moves; two earners at the
\* workshop; agents that are not eligible (auto off, status not active)
\* around an idle one; two earners whose cooldown was loaded, the second
\* after a capacity denial at tick 0; an earner whose denial reason was
\* loaded without its tick; two earners away from the workshop, the first
\* without a balance.
AutoAgentLists ==
    {<<RawAgent(IntV(1), StrV("spawn"), IntV(3), BoolV(TRUE), IntV(0), StrV("wander"),
                MissingV, MissingV)>>,
     <<RawAgent(IntV(1), StrV("workshop"), IntV(2), BoolV(TRUE), IntV(0), StrV("earn"),
                MissingV, MissingV),
       RawAgent(IntV(2), StrV("workshop"), IntV(1), BoolV(TRUE), IntV(0), StrV("earn"),
                MissingV, MissingV)>>,
     <<RawAgent(IntV(1), StrV("spawn"), IntV(2), BoolV(FALSE), IntV(0), StrV("earn"),
                MissingV, MissingV),
       [RawAgent(IntV(2), StrV("spawn"), IntV(2), BoolV(TRUE), IntV(0), StrV("wander"),
                 MissingV, MissingV) EXCEPT !.status = StrV("paused")],
       RawAgent(IntV(3), StrV("market"), IntV(1), BoolV(TRUE), IntV(0), StrV("idle"),
                MissingV, MissingV)>>,
     <<RawAgent(IntV(1), StrV("workshop"), IntV(1), BoolV(TRUE), IntV(2), StrV("earn"),
                MissingV, MissingV),
       RawAgent(IntV(2), StrV("workshop"), IntV(1), BoolV(TRUE), IntV(2), StrV("earn"),
                StrV("capacity"), IntV(0))>>,
     <<RawAgent(IntV(1), StrV("workshop"), IntV(1), BoolV(TRUE), IntV(0), StrV("earn"),
                StrV("capacity"), MissingV)>>,
     <<RawAgent(IntV(1), StrV("spawn"), IntV(0), BoolV(TRUE), IntV(0), StrV("earn"),
                MissingV, MissingV),
       RawAgent(IntV(2), StrV("market"), IntV(1), BoolV(TRUE), IntV(0), StrV("earn"),
                MissingV, MissingV)>>}

AutoSnapshots ==
    {Snapshot("ok", [EmptyRawWorld EXCEPT !.agents = ags]) : ags \in AutoAgentLists}

LoadAuto ==
    \E doc \in AutoSnapshots :
        Returns("load", load_world_state(world_state, ALLOW_FREE_JOIN, doc), 0)

NextAuto ==
    \/ LoadAuto
    \/ ScenarioBasicAuto
    \/ AutoStep
    \/ AutoTick
    \/ AutoSetGoal

SpecAuto == Init /\ [][NextAuto]_vars

(***************************************************************************)
(* Persistence: the snapshot file written by save and read back by load,   *)
(* among the operations that change what is saved.                         *)
(***************************************************************************)
\* /persist/save ended with r: the world with the logged event and the file.
Saved(r, include_logs) ==
    /\ world_state' = r.ws
    /\ snapshot_file' = r.file
    /\ last' = Last("save", "ok", 200, IF include_logs THEN 1 ELSE 0, <<>>, <<>>)
    /\ Served

Save ==
    \E include_logs \in BOOLEAN : Saved(persist_save(world_state, include_logs), include_logs)

\* /persist/load of the file as save left it (absent before the first save).
LoadSaved ==
    Returns("load", load_world_state(world_state, ALLOW_FREE_JOIN, snapshot_file), 1)

NextPersist ==
    \/ ScenarioBasic
    \/ Join
    \/ Act
    \/ MarketBuy
    \/ Tick
    \/ AutoTick
    \/ Load
    \/ Save
    \/ LoadSaved

SpecPersist == Init /\ [][NextPersist]_vars

(***************************************************************************)
(* Properties.  They read the world state and the record of the last call: *)
(* for tick and auto_tick, last.trace holds per step the detached queue    *)
(* and, per processed action, its events, whether it was applied, and the  *)
(* agents and the capacity left before and after it.                       *)
(***************************************************************************)
TickTrace == IF last.op \in {"tick", "auto_tick"} THEN last.trace ELSE <<>>

\* The processed actions of the last call, as pairs <<step, index>>.
ProcessedActions ==
    UNION {{<<s, i>> : i \in 1..Len(TickTrace[s].outs)} : s \in 1..Len(TickTrace)}

HasEvent(out, event) == \E j \in 1..Len(out.ev) : out.ev[j].event = event

IsAppliedEarn(out) == out.applied = 1 /\ HasEvent(out, "earn")

AppliedEarns(step) ==
    Cardinality({i \in 1..Len(step.outs) : IsAppliedEarn(step.outs[i])})

\* The index of the first agent with this id, 0 when there is none.
AgentIndex(agents, id) ==
    IF \E k \in 1..Len(agents) : agents[k].id = id
    THEN CHOOSE k \in 1..Len(agents) :
            agents[k].id = id /\ \A j \in 1..(k - 1) : agents[j].id # id
    ELSE 0

(***************************************************************************)
(* C1: after any sequence of operations, and after every action a tick     *)
(* step processes, every agent's balance is a non-negative integer: no     *)
(* move, transfer or market purchase debits more than the agent holds.     *)
(***************************************************************************)
C1_BalanceNonNegative ==
    /\ \A k \in 1..Len(world_state.agents) : world_state.agents[k].balance_mon \in Nat
    /\ \A p \in ProcessedActions :
          LET after == TickTrace[p[1]].outs[p[2]].post.agents
          IN  \A k \in 1..Len(after) : after[k].balance_mon \in Nat

\* A market purchase went through and debited its price.
C1_PurchaseDebited ==
    /\ last.op = "market_buy"
    /\ last.result = "ok"
    /\ \E k \in 1..Len(world_state.agents) :
          /\ Len(world_state.agents[k].inventory) = last.n
          /\ world_state.agents[k].balance_mon >= 0

(***************************************************************************)
(* C2: tick(steps) returns with the tick counter equal to its value before *)
(* the call plus exactly steps, whatever the queue contains; and no tick,  *)
(* act, auto step or join makes the counter decrease.                      *)
(***************************************************************************)
C2_TickAdvancesBySteps ==
    [][/\ last'.op = "tick" =>
              /\ last'.result = "ok"
              /\ world_state'.tick = world_state.tick + last'.n
       /\ last'.op \in {"tick", "act", "auto_step", "join"} =>
              world_state'.tick >= world_state.tick]_vars

(***************************************************************************)
(* C3: between operations (no tick step in progress) the capacity left is  *)
(* between 0 and the capacity per tick, also after reset, scenario load    *)
(* and snapshot load.                                                      *)
(***************************************************************************)
C3_CapacityWithinBounds ==
    /\ 0 <= world_state.economy.workshop_capacity_left
    /\ world_state.economy.workshop_capacity_left
          <= world_state.economy.workshop_capacity_per_tick

(***************************************************************************)
(* C4: every tick step first resets the capacity left to the capacity per  *)
(* tick, whatever was left before; the earns applied in a step never       *)
(* exceed the capacity per tick; each applied earn takes exactly one unit, *)
(* whatever its amount.                                                    *)
(***************************************************************************)
C4_CapacityResetEachStep ==
    /\ \A s \in 1..Len(TickTrace) :
          LET step == TickTrace[s]
          IN  /\ step.cap_reset = world_state.economy.workshop_capacity_per_tick
              /\ step.outs # <<>> => step.outs[1].pre.left = step.cap_reset
              /\ AppliedEarns(step) <= step.cap_reset
    /\ \A p \in ProcessedActions :
          LET out == TickTrace[p[1]].outs[p[2]]
          IN  out.post.left = out.pre.left - (IF IsAppliedEarn(out) THEN 1 ELSE 0)
    /\ TickTrace # <<>> =>
          world_state.economy.workshop_capacity_left =
              world_state.economy.workshop_capacity_per_tick
                  - AppliedEarns(TickTrace[Len(TickTrace)])

\* A step that started with capacity left over, applied an earn of amount 2
\* for one unit, and denied the next earn for capacity.
C4_EarnOfTwoTakesOneUnit ==
    \E s \in 1..Len(TickTrace) :
        LET step == TickTrace[s]
        IN  /\ step.left_before > 0
            /\ AppliedEarns(step) = step.cap_reset
            /\ \E i \in 1..Len(step.outs) :
                  /\ IsAppliedEarn(step.outs[i])
                  /\ \E k \in 1..Len(step.outs[i].pre.agents) :
                        step.outs[i].post.agents[k].balance_mon
                            = step.outs[i].pre.agents[k].balance_mon + 2
                  /\ step.outs[i].post.left = step.outs[i].pre.left - 1
            /\ \E i \in 1..Len(step.outs) : HasEvent(step.outs[i], "earn_denied_capacity")

(***************************************************************************)
(* C5: a tick step processes the detached queue in queue order: the i-th   *)
(* outcome is that of the i-th action, the log ends with the outcome       *)
(* events in that order, and among earns competing for capacity no earn    *)
(* is denied for capacity before a later one is applied.                   *)
(***************************************************************************)
EventsOfType(type) ==
    CASE type = "move" -> {"move_denied_invalid_payload", "move_denied_insufficient_funds",
                           "move_cost", "move"}
      [] type = "earn" -> {"earn_denied_wrong_location", "earn_denied_capacity",
                           "cooldown_penalty", "earn_denied_invalid_amount", "earn"}
      [] type = "say" -> {"say"}
      [] type = "transfer" -> {"transfer_denied_invalid_target",
                               "transfer_denied_invalid_amount",
                               "transfer_denied_same_agent",
                               "transfer_denied_unknown_target",
                               "transfer_denied_insufficient_funds", "transfer"}
      [] OTHER -> {}

SkipEvents == {"action_skipped_invalid", "action_skipped_unknown_agent"}

\* The event ev is an outcome of the queued action a.
OutcomeOf(ev, a) ==
    \/ ev.event \in SkipEvents
    \/ /\ a.isdict
       /\ a.agent_id = IntV(ev.agent_id)
       /\ a.type.t = "str"
       /\ ev.event \in EventsOfType(a.type.s)

RECURSIVE OutEvents(_)
OutEvents(outs) == IF outs = <<>> THEN <<>> ELSE Head(outs).ev \o OutEvents(Tail(outs))

RECURSIVE TraceEvents(_, _)
\* The events the steps of a trace logged, in time order; a step that was
\* not left by an exception ends with its "tick" event.
TraceEvents(trace, raised) ==
    IF trace = <<>> THEN <<>>
    ELSE OutEvents(Head(trace).outs)
         \o (IF Len(trace) = 1 /\ raised THEN <<>>
             ELSE <<[event |-> "tick", agent_id |-> 0]>>)
         \o TraceEvents(Tail(trace), raised)

\* The log ends with the events es, as far as the log reaches back.
LogEndsWith(es) ==
    \A j \in 1..MAX_LOGS :
        (j <= Len(es) /\ j <= Len(world_state.logs)) =>
            LET e == world_state.logs[Len(world_state.logs) - j + 1]
                x == es[Len(es) - j + 1]
            IN  e.event = x.event /\ e.agent_id = x.agent_id

C5_QueueProcessedInOrder ==
    /\ \A s \in 1..Len(TickTrace) : Len(TickTrace[s].outs) <= Len(TickTrace[s].queue)
    /\ \A p \in ProcessedActions :
          LET out == TickTrace[p[1]].outs[p[2]]
          IN  \A j \in 1..Len(out.ev) : OutcomeOf(out.ev[j], TickTrace[p[1]].queue[p[2]])
    /\ \A p \in ProcessedActions, q \in ProcessedActions :
          (p[1] = q[1] /\ p[2] < q[2]) =>
              ~(/\ HasEvent(TickTrace[p[1]].outs[p[2]], "earn_denied_capacity")
                /\ IsAppliedEarn(TickTrace[q[1]].outs[q[2]]))
    /\ LogEndsWith(TraceEvents(TickTrace, last.result # "ok"))

\* Two earns competed for one unit: the first was applied, the second
\* denied, and the log holds their events in that order.
C5_FirstEarnWins ==
    /\ Len(TickTrace) = 1
    /\ Len(TickTrace[1].outs) = 2
    /\ IsAppliedEarn(TickTrace[1].outs[1])
    /\ HasEvent(TickTrace[1].outs[2], "earn_denied_capacity")
    /\ Len(world_state.logs) = 4
    /\ world_state.logs[1].event = "earn"
    /\ world_state.logs[2].event = "earn_denied_capacity"
    /\ world_state.logs[1].agent_id # world_state.logs[2].agent_id

(***************************************************************************)
(* C6: a tick step detaches the whole queue before processing it, so every *)
(* action in the queue when tick is called is processed exactly once, in   *)
(* the first step; the later steps process an empty queue, and the queue   *)
(* is empty when tick is over.                                             *)
(***************************************************************************)
C6_QueueDrainedOnce ==
    [][last'.op = "tick" =>
          /\ world_state'.action_queue = <<>>
          /\ Len(last'.trace) = last'.n
          /\ last'.trace[1].queue = world_state.action_queue
          /\ Len(last'.trace[1].outs) = Len(world_state.action_queue)
          /\ \A s \in 2..Len(last'.trace) : last'.trace[s].queue = <<>>]_vars

(***************************************************************************)
(* C7: tick never aborts: whatever the queue holds, every step processes   *)
(* every action of its queue and the call returns without raising.         *)
(***************************************************************************)
C7_TickNeverAborts ==
    last.op \in {"tick", "auto_tick"} =>
        /\ last.result = "ok"
        /\ \A s \in 1..Len(last.trace) :
              Len(last.trace[s].outs) = Len(last.trace[s].queue)

(***************************************************************************)
(* C8: every action a tick step finishes without applying it has logged    *)
(* at least one denial or skip event, whatever its type value.             *)
(***************************************************************************)
C8_NoSilentDrop ==
    \A p \in ProcessedActions :
        LET out == TickTrace[p[1]].outs[p[2]]
        IN  (out.applied = 0 /\ out.raised = "") => out.ev # <<>>

(***************************************************************************)
(* C9: what act answers to a request, read off the request and the world.  *)
(***************************************************************************)
SenderMissing(req) ==
    ~\E k \in 1..Len(world_state.agents) : world_state.agents[k].id = req.agent_id

PositiveInt(v) == v.t = "int" /\ v.i > 0

MoveTargetInvalid(req) ==
    LET to == or_empty(req.payload).to
    IN  ~(to.t = "str" /\ InSeq(to.s, world_state.locations))

EarnAmountInvalid(req) ==
    LET amount == or_empty(req.payload).amount
    IN  amount.t # "missing" /\ ~PositiveInt(amount)

SayTextInvalid(req) ==
    LET text == or_empty(req.payload).text
    IN  ~(text.t = "str" /\ text.s \notin BlankStrings)

TransferFieldsInvalid(req) ==
    LET to_agent_id == or_empty(req.payload).to_agent_id
        amount == or_empty(req.payload).amount
    IN  \/ ~PositiveInt(to_agent_id)
        \/ ~PositiveInt(amount)
        \/ to_agent_id.i = req.agent_id

PayloadInvalid(req) ==
    \/ req.type = "move" /\ MoveTargetInvalid(req)
    \/ req.type = "earn" /\ EarnAmountInvalid(req)
    \/ req.type = "say" /\ SayTextInvalid(req)
    \/ req.type = "transfer" /\ TransferFieldsInvalid(req)

ReceiverMissing(req) ==
    /\ req.type = "transfer"
    /\ ~TransferFieldsInvalid(req)
    /\ ~\E k \in 1..Len(world_state.agents) :
          world_state.agents[k].id = or_empty(req.payload).to_agent_id.i

\* The answer to req: not-found for an unknown sender, invalid-payload for a
\* bad payload, receiver_code for a well-formed transfer to an agent that
\* does not exist, and otherwise the action at the tail of the queue; a
\* refused request leaves the world as it was.
ActAnswers(req, receiver_code) ==
    LET r == act_handler(world_state, req)
    IN  /\ SenderMissing(req) => r.code = 404
        /\ (~SenderMissing(req) /\ PayloadInvalid(req)) => r.code = 400
        /\ (~SenderMissing(req) /\ ReceiverMissing(req)) => r.code = receiver_code
        /\ r.code # 200 =>
              /\ r.ws.action_queue = world_state.action_queue
              /\ r.ws.logs = world_state.logs
              /\ r.ws = world_state
        /\ (~SenderMissing(req) /\ ~PayloadInvalid(req) /\ ~ReceiverMissing(req)) =>
              /\ r.code = 200
              /\ Len(r.ws.action_queue) = Len(world_state.action_queue) + 1
              /\ r.ws.action_queue[Len(r.ws.action_queue)].agent_id = IntV(req.agent_id)

IsMove(a) == a.isdict /\ a.type = StrV("move") /\ a.agent_id.t = "int"

MoveTarget(a) == or_empty(a.payload).to

MoveTargetValid(a) ==
    /\ a.payload.kind # "bad"
    /\ MoveTarget(a).t = "str"
    /\ InSeq(MoveTarget(a).s, world_state.locations)

C10_MoveAppliedIffAffordable ==
    \A p \in ProcessedActions :
        LET a == TickTrace[p[1]].queue[p[2]]
            out == TickTrace[p[1]].outs[p[2]]
        IN  (IsMove(a) /\ AgentIndex(out.pre.agents, a.agent_id.i) # 0) =>
            LET k == AgentIndex(out.pre.agents, a.agent_id.i)
                before == out.pre.agents[k]
                after == out.post.agents[k]
            IN  /\ out.applied = 1 <=>
                      (MoveTargetValid(a) /\ before.balance_mon >= MOVE_COST_MON)
                /\ out.applied = 1 =>
                      /\ after.balance_mon = before.balance_mon - MOVE_COST_MON
                      /\ after.pos = MoveTarget(a).s
                /\ out.applied = 0 => out.post = out.pre
                /\ (out.applied = 0 /\ out.raised = "") =>
                      out.ev = <<[event |-> IF MoveTargetValid(a)
                                            THEN "move_denied_insufficient_funds"
                                            ELSE "move_denied_invalid_payload",
                                  agent_id |-> before.id]>>

\* An agent with balance 0 at spawn had its move to workshop denied and
\* stayed at spawn.
C10_BrokeAgentStaysAtSpawn ==
    \E p \in ProcessedActions :
        LET a == TickTrace[p[1]].queue[p[2]]
            out == TickTrace[p[1]].outs[p[2]]
        IN  /\ IsMove(a)
            /\ MoveTarget(a) = StrV("workshop")
            /\ HasEvent(out, "move_denied_insufficient_funds")
            /\ \E k \in 1..Len(out.pre.agents) :
                  /\ out.pre.agents[k].id = a.agent_id.i
                  /\ out.pre.agents[k].balance_mon = 0
                  /\ out.pre.agents[k].pos = "spawn"
                  /\ out.post.agents[k].pos = "spawn"

(***************************************************************************)
(* C11: an earn processed for an agent at the workshop while the capacity  *)
(* left is <= 0 is denied: no balance and no capacity changes, it is not   *)
(* counted as applied, earn_denied_capacity and cooldown_penalty are       *)
(* logged, the agent's cooldown_until_tick becomes the larger of its old   *)
(* value and tick + 2, and last_denied_reason / last_denied_tick record    *)
(* "capacity" and the current tick.                                        *)
(***************************************************************************)
IsEarn(a) == a.isdict /\ a.type = StrV("earn") /\ a.agent_id.t = "int"

Balances(agents) == [k \in 1..Len(agents) |-> agents[k].balance_mon]

C11_EarnDeniedAtCapacity ==
    \A p \in ProcessedActions :
        LET step == TickTrace[p[1]]
            a == step.queue[p[2]]
            out == step.outs[p[2]]
        IN  (IsEarn(a) /\ AgentIndex(out.pre.agents, a.agent_id.i) # 0) =>
            LET k == AgentIndex(out.pre.agents, a.agent_id.i)
                before == out.pre.agents[k]
                after == out.post.agents[k]
            IN  (before.pos = "workshop" /\ out.pre.left <= 0) =>
                /\ out.applied = 0
                /\ out.raised = ""
                /\ out.ev = <<[event |-> "earn_denied_capacity", agent_id |-> before.id],
                              [event |-> "cooldown_penalty", agent_id |-> before.id]>>
                /\ out.post.left = out.pre.left
                /\ Balances(out.post.agents) = Balances(out.pre.agents)
                /\ after.cooldown_until_tick = Max(before.cooldown_until_tick, step.tick + 2)
                /\ after.last_denied_reason = StrV("capacity")
                /\ after.last_denied_tick = IntV(step.tick)

\* An earn met an exhausted workshop and was denied; the agent's cooldown
\* now ends two ticks later.
C11_EarnMetExhaustedWorkshop ==
    \E p \in ProcessedActions :
        LET step == TickTrace[p[1]]
            a == step.queue[p[2]]
            out == step.outs[p[2]]
        IN  /\ IsEarn(a)
            /\ out.pre.left = 0
            /\ HasEvent(out, "earn_denied_capacity")
            /\ \E k \in 1..Len(out.pre.agents) :
                  /\ out.pre.agents[k].id = a.agent_id.i
                  /\ out.pre.agents[k].pos = "workshop"
                  /\ out.post.agents[k].cooldown_until_tick = step.tick + 2

(***************************************************************************)
(* C12: a queued transfer between two existing agents whose amount exceeds *)
(* the sender's balance when it is processed is denied with                *)
(* transfer_denied_insufficient_funds and changes no balance; otherwise it *)
(* is applied, the sender is debited and the receiver credited by the      *)
(* amount, and nothing else changes.  Only such transfers are applied.     *)
(***************************************************************************)
IsTransfer(a) == a.isdict /\ a.type = StrV("transfer") /\ a.agent_id.t = "int"

\* The transfer names a positive integer amount and another, existing agent.
TransferWellFormed(a, agents) ==
    /\ a.payload.kind # "bad"
    /\ PositiveInt(dict_get(or_empty(a.payload).to_agent_id))
    /\ PositiveInt(dict_get(or_empty(a.payload).amount))
    /\ or_empty(a.payload).to_agent_id.i # a.agent_id.i
    /\ AgentIndex(agents, a.agent_id.i) # 0
    /\ AgentIndex(agents, or_empty(a.payload).to_agent_id.i) # 0

TransferMoves(pre, post, k, r, amount) ==
    /\ post.left = pre.left
    /\ post.agents = [pre.agents EXCEPT ![k].balance_mon = @ - amount,
                                        ![r].balance_mon = @ + amount]

C12_TransferDebitsAndCredits ==
    \A p \in ProcessedActions :
        LET a == TickTrace[p[1]].queue[p[2]]
            out == TickTrace[p[1]].outs[p[2]]
        IN  IsTransfer(a) =>
            /\ HasEvent(out, "transfer") => TransferWellFormed(a, out.pre.agents)
            /\ TransferWellFormed(a, out.pre.agents) =>
               LET k == AgentIndex(out.pre.agents, a.agent_id.i)
                   r == AgentIndex(out.pre.agents, or_empty(a.payload).to_agent_id.i)
                   amount == or_empty(a.payload).amount.i
               IN  IF amount > out.pre.agents[k].balance_mon
                   THEN /\ out.applied = 0
                        /\ out.ev = <<[event |-> "transfer_denied_insufficient_funds",
                                       agent_id |-> a.agent_id.i]>>
                        /\ out.post = out.pre
                   ELSE /\ out.applied = 1
                        /\ out.ev = <<[event |-> "transfer", agent_id |-> a.agent_id.i]>>
                        /\ TransferMoves(out.pre, out.post, k, r, amount)

\* One tick step denied a transfer of more than the sender had and applied
\* a transfer the sender could afford.
C12_OneDeniedOneApplied ==
    /\ \E p \in ProcessedActions :
          LET a == TickTrace[p[1]].queue[p[2]]
              out == TickTrace[p[1]].outs[p[2]]
          IN  /\ IsTransfer(a)
              /\ TransferWellFormed(a, out.pre.agents)
              /\ HasEvent(out, "transfer_denied_insufficient_funds")
    /\ \E p \in ProcessedActions :
          LET a == TickTrace[p[1]].queue[p[2]]
              out == TickTrace[p[1]].outs[p[2]]
          IN  /\ IsTransfer(a)
              /\ out.applied = 1
              /\ or_empty(a.payload).amount.i > 0

(***************************************************************************)
(* C13: a successful join appends an agent whose id is the largest id of   *)
(* the agents that were there plus one, and 1 when there were none, also   *)
(* when the agents came from a snapshot whose ids have gaps; the ids of    *)
(* the agents are positive and pairwise distinct in every state reached by *)
(* reset, the scenarios, join and loads of snapshots with distinct ids.    *)
(***************************************************************************)
AgentIds_of(agents) == {agents[k].id : k \in 1..Len(agents)}

LargestId(agents) ==
    IF agents = <<>> THEN 0
    ELSE CHOOSE m \in AgentIds_of(agents) : \A j \in AgentIds_of(agents) : j <= m

JoinedLast ==
    /\ last.op = "join"
    /\ last.code = 200

C13_IdsMaxPlusOneAndDistinct ==
    LET agents == world_state.agents
    IN  /\ \A k \in 1..Len(agents) : agents[k].id > 0
        /\ \A j, k \in 1..Len(agents) : agents[j].id = agents[k].id => j = k
        /\ JoinedLast =>
              /\ agents # <<>>
              /\ agents[Len(agents)].id = LargestId(SubSeq(agents, 1, Len(agents) - 1)) + 1

\* A join after the load of a snapshot holding only agent 2 gave the id 3.
C13_JoinAfterGap ==
    /\ JoinedLast
    /\ Len(world_state.agents) = 2
    /\ world_state.agents[1].id = 2
    /\ world_state.agents[2].id = 3

(***************************************************************************)
(* C14: one autonomy step with limit n decides for exactly the first       *)
(* min(n, number of eligible agents) agents with auto = TRUE and status    *)
(* "active", in the order of the agent list: each of them gets exactly one *)
(* auto_decision event, preceded by the queued_action event of the one     *)
(* action it may enqueue; nothing else is logged or enqueued.              *)
(***************************************************************************)
Eligible(agent) == agent.auto = TRUE /\ agent.status = "active"

\* The eligible agents with fewer than limit eligible agents before them.
DecidedAgents(agents, limit) ==
    {k \in 1..Len(agents) :
        /\ Eligible(agents[k])
        /\ Cardinality({j \in 1..(k - 1) : Eligible(agents[j])}) < limit}

RECURSIVE DecisionEvents(_, _, _)
DecisionEvents(ds, agents, t) ==
    IF ds = <<>> THEN <<>>
    ELSE (IF Head(ds).chosen # <<>>
          THEN <<LogEvent(t, "queued_action", agents[Head(ds).k].id)>>
          ELSE <<>>)
         \o <<LogEvent(t, "auto_decision", agents[Head(ds).k].id)>>
         \o DecisionEvents(Tail(ds), agents, t)

RECURSIVE ChosenActions(_)
ChosenActions(ds) ==
    IF ds = <<>> THEN <<>> ELSE Head(ds).chosen \o ChosenActions(Tail(ds))

AutoStepDecides(ws, ws2, call) ==
    LET agents == ws.agents
        ds == call.ds
    IN  /\ {ds[j].k : j \in 1..Len(ds)} = DecidedAgents(agents, call.n)
        /\ \A i, j \in 1..Len(ds) : i < j => ds[i].k < ds[j].k
        /\ \A j \in 1..Len(ds) :
              /\ Len(ds[j].chosen) <= 1
              /\ ds[j].chosen # <<>> =>
                    ds[j].chosen[1].agent_id = IntV(agents[ds[j].k].id)
        /\ ws2.logs = TruncateLogs(ws.logs \o DecisionEvents(ds, agents, ws.tick))
        /\ ws2.action_queue = ws.action_queue \o ChosenActions(ds)

C14_AutoStepDecidesFirstEligible ==
    [][last'.op = "auto_step" => AutoStepDecides(world_state, world_state', last')]_vars

\* A step with limit 1 over two eligible agents decided for the first only
\* and enqueued its action.
C14_LimitCutsSecondAgent ==
    /\ last.op = "auto_step"
    /\ last.n = 1
    /\ Len(last.ds) = 1
    /\ last.ds[1].chosen # <<>>
    /\ Len(world_state.action_queue) = 1
    /\ Cardinality({k \in 1..Len(world_state.agents) : Eligible(world_state.agents[k])}) >= 2
    /\ world_state.logs[Len(world_state.logs)].event = "auto_decision"

(***************************************************************************)
(* C15: while tick < cooldown_until_tick for an agent, an autonomy step    *)
(* (alone or as the first half of an auto tick) enqueues no action for     *)
(* that agent, unless its last capacity denial is recent (tick <=          *)
(* last_denied_tick + 1): then it may enqueue one move to the cyclic next  *)
(* location, which it can pay, and nothing else.                           *)
(***************************************************************************)
RecentlyDenied(agent, t) ==
    /\ agent.last_denied_reason = StrV("capacity")
    /\ dict_get(agent.last_denied_tick).t # "none"
    /\ t <= to_non_negative_int(dict_get(agent.last_denied_tick), 0) + 1

AutonomyRan(call) == call.op \in {"auto_step", "auto_tick"}

InCooldown(ws, k) == ws.tick < ws.agents[k].cooldown_until_tick

ReactiveMoveOnly(ws, k, chosen) ==
    \/ chosen = <<>>
    \/ /\ chosen[1].type = StrV("move")
       /\ chosen[1].agent_id = IntV(ws.agents[k].id)
       /\ chosen[1].payload = MovePayload(StrV(pick_next_location(ws, ws.agents[k].pos)))
       /\ ws.agents[k].balance_mon >= MOVE_COST_MON

C15_CooldownBlocksUnlessReactive ==
    [][AutonomyRan(last') =>
          \A j \in 1..Len(last'.ds) :
              InCooldown(world_state, last'.ds[j].k) =>
                  IF RecentlyDenied(world_state.agents[last'.ds[j].k], world_state.tick)
                  THEN ReactiveMoveOnly(world_state, last'.ds[j].k, last'.ds[j].chosen)
                  ELSE last'.ds[j].chosen = <<>>]_vars

\* The claim as stated: in cooldown nothing is enqueued for the agent.
C15_CooldownBlocksAlways ==
    [][AutonomyRan(last') =>
          \A j \in 1..Len(last'.ds) :
              InCooldown(world_state, last'.ds[j].k) => last'.ds[j].chosen = <<>>]_vars

\* One autonomy step met two agents in cooldown: the cooldown gate stopped
\* the first, the second reacted to its capacity denial with a move.
C15_GateAndReaction ==
    /\ last.op = "auto_step"
    /\ Len(last.ds) = 2
    /\ last.ds[1].chosen = <<>>
    /\ last.ds[2].chosen # <<>>
    /\ \A j \in 1..2 : InCooldown(world_state, last.ds[j].k)
    /\ last.ds[2].chosen[1].type = StrV("move")
    /\ world_state.agents[last.ds[2].k].last_denied_reason = MissingV

(***************************************************************************)
(* C16: an auto tick moves an auto agent with goal wander, enough balance  *)
(* for the move, no cooldown or recent denial pending and nothing else     *)
(* queued, from its location to the cyclic successor in the location list: *)
(* the decision is a move to the successor, and after the tick the agent   *)
(* is there and has paid MOVE_COST_MON.  With the locations spawn, market, *)
(* workshop, successive auto ticks go spawn -> market -> workshop -> spawn.*)
(***************************************************************************)
WanderCycle == ("spawn" :> "market") @@ ("market" :> "workshop") @@ ("workshop" :> "spawn")

WandersFreely(ws, k) ==
    /\ ws.locations = DefaultLocations
    /\ ws.action_queue = <<>>
    /\ ws.agents[k].goal = "wander"
    /\ ws.agents[k].pos \in DOMAIN WanderCycle
    /\ ws.agents[k].balance_mon >= MOVE_COST_MON
    /\ ~InCooldown(ws, k)
    /\ ~RecentlyDenied(ws.agents[k], ws.tick)

MovedToSuccessor(ws, ws2, d) ==
    /\ d.chosen # <<>>
    /\ d.chosen[1].type = StrV("move")
    /\ d.chosen[1].payload = MovePayload(StrV(WanderCycle[ws.agents[d.k].pos]))
    /\ ws2.agents[d.k].pos = WanderCycle[ws.agents[d.k].pos]
    /\ ws2.agents[d.k].balance_mon = ws.agents[d.k].balance_mon - MOVE_COST_MON

C16_WanderFollowsCycle ==
    [][last'.op = "auto_tick" =>
          \A j \in 1..Len(last'.ds) :
              WandersFreely(world_state, last'.ds[j].k) =>
                  MovedToSuccessor(world_state, world_state', last'.ds[j])]_vars

\* The third auto tick in a row brought the wanderer that started at spawn
\* with balance 3 back to spawn.
C16_CycleClosed ==
    /\ last.op = "auto_tick"
    /\ world_state.tick = 3
    /\ Len(last.ds) = 1
    /\ last.ds[1].chosen # <<>>
    /\ last.ds[1].chosen[1].payload = MovePayload(StrV("spawn"))
    /\ world_state.agents[last.ds[1].k].goal = "wander"
    /\ world_state.agents[last.ds[1].k].pos = "spawn"
    /\ world_state.agents[last.ds[1].k].balance_mon = 0

(***************************************************************************)
(* C17: reset is idempotent.  After a reset the tick is 0, the locations   *)
(* are the default ones, there are no agents and no queued actions, the    *)
(* capacity is 1 of 1, the log holds exactly one reset event and the used  *)
(* entry hashes are the preserved ones; a second reset changes nothing:    *)
(* it yields the same world, with the same set of used hashes.             *)
(***************************************************************************)
SeqSet(seq) == {seq[k] : k \in 1..Len(seq)}

\* The well-formed hashes among used, in their stored form.
WellFormedUsed(used) ==
    {strip_lower(used[k]) : k \in {j \in 1..Len(used) : well_formed_hash(strip_lower(used[j]))}}

FreshlyReset(ws) ==
    /\ ws.tick = 0
    /\ ws.locations = <<"spawn", "market", "workshop">>
    /\ ws.agents = <<>>
    /\ ws.action_queue = <<>>
    /\ ws.economy = [workshop_capacity_per_tick |-> 1, workshop_capacity_left |-> 1]
    /\ ws.logs = <<LogEvent(0, "reset", 0)>>

C17_ResetIdempotent ==
    [][last'.op = "reset" =>
          /\ FreshlyReset(world_state')
          /\ SeqSet(world_state'.entry.used_tx_hashes) =
                 IF ALLOW_FREE_JOIN THEN {}
                 ELSE WellFormedUsed(world_state.entry.used_tx_hashes)
          /\ reset_handler(world_state', ALLOW_FREE_JOIN) = world_state'
          /\ last.op = "reset" => world_state' = world_state]_vars

\* A reset in gated mode kept the one well-formed used hash, after an
\* earlier request had changed the world.
C17_ResetKeptUsedHash ==
    /\ last.op = "reset"
    /\ requests >= 2
    /\ ~ALLOW_FREE_JOIN
    /\ world_state.entry.used_tx_hashes = <<"0xaa">>
    /\ Len(world_state.logs) = 1

(***************************************************************************)
(* C18: in every reachable state, saving a snapshot (with the log) and     *)
(* loading it back succeeds and reproduces the world: the same tick,       *)
(* locations, agents with all their fields, action queue and economy, and  *)
(* the same set of used entry hashes; the log is the saved log with the    *)
(* persist_load event appended (the ring dropping its oldest event when    *)
(* full).                                                                  *)
(***************************************************************************)
Reproduces(ws, r) ==
    /\ r.code = 200
    /\ r.ws.tick = ws.tick
    /\ r.ws.locations = ws.locations
    /\ r.ws.agents = ws.agents
    /\ r.ws.action_queue = ws.action_queue
    /\ r.ws.economy = ws.economy
    /\ SeqSet(r.ws.entry.used_tx_hashes) = SeqSet(ws.entry.used_tx_hashes)
    /\ r.ws.logs = TruncateLogs(Append(ws.logs, LogEvent(ws.tick, "persist_load", 0)))

C18_SaveLoadRoundTrip ==
    Reproduces(world_state,
               load_world_state(world_state, ALLOW_FREE_JOIN,
                                save_world_state(world_state, TRUE)))

\* The file saved from a world with agents and a queued action was loaded
\* back right after the save.
C18_SavedWorldLoadedBack ==
    /\ last.op = "load"
    /\ last.code = 200
    /\ snapshot_file = save_world_state([world_state EXCEPT
                                            !.logs = snapshot_file.world_state.logs], TRUE)
    /\ Len(world_state.logs) >= 2
    /\ world_state.logs[Len(world_state.logs)].event = "persist_load"
    /\ world_state.logs[Len(world_state.logs) - 1].event = "persist_save"
    /\ world_state.agents # <<>>
    /\ world_state.action_queue # <<>>

(***************************************************************************)
(* C19: a snapshot load that fails because the file is missing, is not     *)
(* valid JSON, has a root that is not an object, has a schema_version      *)
(* other than 1 or a world_state that is not an object, answers with an    *)
(* explicit error (404 for the missing file, 400 for the others) and       *)
(* leaves the live world exactly as it was, so that act and tick go on     *)
(* from the same state.                                                    *)
(***************************************************************************)
LoadErrorCode(doc) == IF doc.kind = "missing" THEN 404 ELSE 400

LoadRefused(call) == call.op = "load" /\ call.code \in {400, 404}

C19_FailedLoadChangesNothing ==
    [][/\ \A doc \in FailingSnapshots :
              load_world_state(world_state, ALLOW_FREE_JOIN, doc)
                  = HttpError(world_state, LoadErrorCode(doc))
       /\ LoadRefused(last') =>
              /\ world_state' = world_state
              /\ last'.result # "ok"]_vars

\* A load was refused while the world held agents and the log of earlier
\* requests; they are still there.
C19_RefusedLoadKeptWorld ==
    /\ LoadRefused(last)
    /\ world_state.agents # <<>>
    /\ world_state.logs # <<>>
    /\ world_state.logs[Len(world_state.logs)].event # "persist_load"

(***************************************************************************)
(* C20: in every state, snapshot loads included, the pos of every agent is *)
(* one of the world's locations (a loaded agent whose pos is not one is    *)
(* put at spawn).                                                          *)
(***************************************************************************)
C20_PosAlwaysALocation ==
    \A k \in 1..Len(world_state.agents) :
        InSeq(world_state.agents[k].pos, world_state.locations)

(***************************************************************************)
(* C21: in every state the goal of every agent is earn, wander or idle,    *)
(* and the load of a well-formed snapshot document succeeds and gives      *)
(* every agent it keeps the goal of the document when that is one of the   *)
(* three, and earn when the goal is missing or anything else.              *)
(***************************************************************************)
Goals(agents) == [k \in 1..Len(agents) |-> agents[k].goal]

KeptAgent(a) == a.isdict /\ to_int(dict_get(a.id), 0) > 0

LoadedGoal(a) ==
    IF a.goal.t = "str" /\ a.goal.s \in {"earn", "wander", "idle"} THEN a.goal.s ELSE "earn"

LoadGivesGoals(raw, r) ==
    /\ r.code = 200
    /\ Goals(r.ws.agents) =
           [k \in 1..Len(SelectSeq(raw.agents, KeptAgent)) |->
               LoadedGoal(SelectSeq(raw.agents, KeptAgent)[k])]

C21_GoalAlwaysKnown ==
    /\ \A k \in 1..Len(world_state.agents) :
          world_state.agents[k].goal \in {"earn", "wander", "idle"}
    /\ \A doc \in Snapshots :
          doc.kind = "ok" =>
              LoadGivesGoals(doc.world_state,
                             load_world_state(world_state, ALLOW_FREE_JOIN, doc))

(***************************************************************************)
(* C22: after every operation the log holds at most MAX_LOGS events.  An   *)
(* operation that does not replace the log keeps a suffix of the old       *)
(* events, in their order, in front of the events it appends, and drops    *)
(* old events only when the log is full afterwards; the event an           *)
(* operation logs last is the newest event of the log, also when the log   *)
(* was replaced by a loaded one that is too long.                          *)
(***************************************************************************)
ReplacesLog(call) ==
    \/ call.op \in {"reset", "scenario_basic", "scenario_basic_auto"}
    \/ call.op = "load" /\ call.code = 200

\* The event that ends a successful call of these operations.
ClosingEvent ==
    ("reset" :> "reset") @@ ("scenario_basic" :> "scenario_loaded")
    @@ ("scenario_basic_auto" :> "scenario_loaded") @@ ("load" :> "persist_load")
    @@ ("tick" :> "tick") @@ ("auto_tick" :> "tick")

\* new keeps the events of old from the n-th on, in order, as its prefix.
KeepsSuffix(old, new, n) ==
    /\ Len(old) - n <= Len(new)
    /\ SubSeq(new, 1, Len(old) - n) = SubSeq(old, n + 1, Len(old))
    /\ n > 0 => Len(new) = MAX_LOGS

LogIsRing(old, new, call) ==
    /\ Len(new) <= MAX_LOGS
    /\ ~ReplacesLog(call) => \E n \in 0..Len(old) : KeepsSuffix(old, new, n)
    /\ (call.op \in DOMAIN ClosingEvent /\ call.code = 200) =>
           /\ new # <<>>
           /\ new[Len(new)].event = ClosingEvent[call.op]

C22_LogBoundedOldestDropped ==
    [][LogIsRing(world_state.logs, world_state'.logs, last')]_vars

\* The auto scenario logged more events than the ring holds: the log is
\* full, ends with the scenario's last event and has lost its first joins.
C22_RingOverflowed ==
    /\ last.op = "scenario_basic_auto"
    /\ Len(world_state.logs) = MAX_LOGS
    /\ world_state.logs[MAX_LOGS].event = "scenario_loaded"
    /\ world_state.logs[MAX_LOGS - 1].event = "goal_set"
    /\ world_state.logs[MAX_LOGS - 1].agent_id = 3


(***************************************************************************)
(* Handlers statement by statement, run by worker threads that interleave. *)
(* tick, act, auto_tick, demo_run (steps = 1), persist_load and join are   *)
(* followed from the entry of their `with WORLD_STATE_LOCK:` block to its  *)
(* exit, through the blocks of the handlers they call; GET /world runs at  *)
(* any moment, since it takes no lock.                                     *)
(***************************************************************************)
ThreadRequests ==
    {[Idle("") EXCEPT !.op = "tick", !.at = "lock"],
     [Idle("") EXCEPT !.op = "demo_run", !.at = "lock"],
     [Idle("") EXCEPT !.op = "auto_tick", !.at = "lock", !.limit_agents = 2]}
    \cup {[Idle("") EXCEPT !.op = "join", !.at = "lock", !.entry_tx_hash = "0xaa",
                           !.rpc = a] : a \in {"ok", "rejected"}}
    \cup {[Idle("") EXCEPT !.op = "act", !.at = "lock", !.req = r] :
            r \in {ActRequest(1, "earn", NonePayload),
                   ActRequest(3, "say", SayPayload(StrV("hi")))}}
    \cup {[Idle("") EXCEPT !.op = "load", !.at = "lock", !.doc = d] :
            d \in {QueueSnapshot(<<Action(0, IntV(1), StrV("transfer"),
                                          TransferPayload(IntV(2), IntV(1)))>>),
                   QueueSnapshot(<<Action(0, IntV(1), StrV("move"), BadPayload),
                                   Action(0, IntV(2), StrV("earn"), EarnPayload(IntV(1)))>>),
                   Snapshot("ok", [EmptyRawWorld EXCEPT !.agents =
                      <<RawAgent(IntV(1), StrV("workshop"), IntV(2), BoolV(TRUE), IntV(0),
                                 StrV("earn"), MissingV, MissingV),
                        RawAgent(IntV(2), StrV("workshop"), IntV(1), BoolV(TRUE), IntV(0),
                                 StrV("earn"), MissingV, MissingV)>>]),
                   Snapshot("missing", EmptyRawWorld)}}

\* A worker thread takes the next request.
Enter ==
    \E t \in Threads, p \in ThreadRequests :
        /\ pc[t].at = "idle"
        /\ requests < MaxRequests
        /\ requests' = requests + 1
        /\ pc' = [pc EXCEPT ![t] = p]
        /\ UNCHANGED <<world_state, config, request, last, snapshot_file,
                       WORLD_STATE_LOCK, seen>>

\* `with WORLD_STATE_LOCK:` is entered: by the handler, or by tick or
\* scenario_basic when auto_tick or demo_run calls them.
Acquire ==
    \E t \in Threads :
        /\ pc[t].at \in {"lock", "tick_lock", "scenario_lock"}
        /\ WORLD_STATE_LOCK.owner \in {0, t}
        /\ WORLD_STATE_LOCK' = acquire(WORLD_STATE_LOCK, t)
        /\ pc' = [pc EXCEPT ![t] =
                    IF pc[t].at = "tick_lock"
                    THEN [pc[t] EXCEPT !.at = "begin", !.depth = @ + 1]
                    ELSE IF pc[t].at = "scenario_lock"
                    THEN [pc[t] EXCEPT !.at = "scenario", !.depth = @ + 1]
                    ELSE [pc[t] EXCEPT !.depth = 1, !.pre = world_state,
                            !.at = CASE pc[t].op = "tick" -> "begin"
                                     [] pc[t].op = "act" -> "find"
                                     [] pc[t].op = "auto_tick" -> "step"
                                     [] pc[t].op = "load" -> "body"
                                     [] pc[t].op = "join" -> "gate"
                                     [] pc[t].op = "demo_run" -> "demo"]]
        /\ UNCHANGED <<world_state, config, request, last, requests, snapshot_file, seen>>

\* A thread inside a block runs its next statements.
Step ==
    \E t \in Threads :
        /\ pc[t].at \in {"begin", "queue", "find", "log", "step", "body", "gate", "rpc",
                        "demo", "scenario", "demo_move", "demo_earn"}
        /\ world_state' = statement(pc[t], world_state, ALLOW_FREE_JOIN).ws
        /\ pc' = [pc EXCEPT ![t].at = statement(pc[t], world_state, ALLOW_FREE_JOIN).at,
                            ![t].queue = IF pc[t].at = "begin"
                                         THEN world_state.action_queue ELSE @,
                            ![t].resume = CASE pc[t].at = "demo" -> "demo_move"
                                            [] pc[t].at = "demo_move" -> "demo_earn"
                                            [] pc[t].at = "demo_earn" -> "return"
                                            [] OTHER -> @]
        /\ UNCHANGED <<config, request, last, requests, snapshot_file,
                       WORLD_STATE_LOCK, seen>>

\* A `with` block is left, by return or by an exception passing through;
\* the caller of a handler that returned goes on where it resumes.
ExitWith ==
    \E t \in Threads :
        /\ pc[t].at \in {"return", "raise"}
        /\ WORLD_STATE_LOCK' = with_exit(WORLD_STATE_LOCK, pc[t].at)
        /\ pc' = [pc EXCEPT ![t] =
                    IF pc[t].depth = 1 THEN Idle(pc[t].at)
                    ELSE [pc[t] EXCEPT !.depth = @ - 1,
                                       !.at = IF pc[t].at = "raise" THEN "raise"
                                              ELSE pc[t].resume]]
        /\ UNCHANGED <<world_state, config, request, last, requests, snapshot_file, seen>>

\* GET /world answers from the dict as it is, whoever holds the lock.
Read ==
    /\ requests < MaxRequests
    /\ requests' = requests + 1
    /\ seen' = IF WORLD_STATE_LOCK.owner = 0
               THEN Answer(world_state, world_state, world_state)
               ELSE Answer(world_state, pc[WORLD_STATE_LOCK.owner].pre,
                           effect(pc[WORLD_STATE_LOCK.owner], ALLOW_FREE_JOIN))
    /\ UNCHANGED <<world_state, config, request, last, snapshot_file,
                   WORLD_STATE_LOCK, pc>>

NextThreads ==
    \/ Enter
    \/ Acquire
    \/ Step
    \/ ExitWith
    \/ Read

SpecThreads == Init /\ [][NextThreads]_vars

\* The requests for the handlers that call other handlers, and the loads
\* that bring the queues their ticks meet.
NextNested ==
    \/ Enter /\ \A t \in Threads : pc'[t].op \in {"idle", "auto_tick", "demo_run", "load"}
    \/ Acquire
    \/ Step
    \/ ExitWith

\* The worker threads are operating system threads: one that can take the
\* lock, leave a block or run its next statements is not left waiting for
\* ever.  The weak fairness of Step is written out, ENABLED <<Step>>_vars
\* being the condition of Step on the label of a thread.
SpecNested ==
    /\ Init
    /\ [][NextNested]_vars
    /\ WF_vars(Acquire \/ ExitWith)
    /\ \/ []<>(\A t \in Threads :
                 pc[t].at \notin {"begin", "queue", "find", "log", "step", "body", "gate",
                                  "rpc", "demo", "scenario", "demo_move", "demo_earn"})
       \/ []<><<Step>>_vars

(***************************************************************************)
(* C23.  Every mutating handler holds the single world lock for its whole  *)
(* duration and releases it on every exit path, error exits included: a    *)
(* thread inside a handler body owns the lock, as many times as it has     *)
(* entered `with` blocks; a thread that is not inside one (it returned,    *)
(* it raised, or it still waits) does not own it, so two threads are never *)
(* inside together and the lock is free once every handler has ended; and  *)
(* the world changes only by a step of the thread that owns the lock.      *)
(***************************************************************************)
InBlock(t) == pc[t].at \notin {"idle", "lock"}

LockDiscipline ==
    /\ \A t \in Threads :
          IF InBlock(t)
          THEN /\ WORLD_STATE_LOCK.owner = t
               /\ WORLD_STATE_LOCK.count = pc[t].depth
          ELSE WORLD_STATE_LOCK.owner # t
    /\ \A t, u \in Threads : InBlock(t) /\ InBlock(u) => t = u
    /\ (\A t \in Threads : pc[t].at = "idle") => WORLD_STATE_LOCK = FreeLock

OwnerWrites ==
    world_state' # world_state =>
        \E t \in Threads :
            /\ InBlock(t)
            /\ WORLD_STATE_LOCK.owner = t
            /\ WORLD_STATE_LOCK' = WORLD_STATE_LOCK
            /\ pc'[t] # pc[t]

C23_LockHeldForWholeHandler == [][LockDiscipline' /\ OwnerWrites]_vars

\* Thread 1's handler raised and left the lock free; thread 2 then took it
\* for auto_tick and again for the tick inside it.
C23_RaisedThenOtherThreadEntered ==
    /\ pc[1] = Idle("raise")
    /\ pc[2].op = "auto_tick"
    /\ pc[2].at = "queue"
    /\ WORLD_STATE_LOCK = [owner |-> 2, count |-> 2]


(***************************************************************************)
(* C24.  A read that runs concurrently with a mutating handler returns the *)
(* state as it was before or after the whole mutation, never a state in    *)
(* between: what GET /world answered is what it would have answered on the *)
(* world before the running handler took the lock, or on the world that    *)
(* handler leaves.                                                         *)
(***************************************************************************)
C24_ReadsSeeWholeMutations == seen.response \in {seen.before, seen.after}


(***************************************************************************)
(* C25.  In token-gated mode a transaction hash accepted for one join is   *)
(* rejected by every later join, whatever its letter case, after any       *)
(* interleaving of reset, the scenarios and snapshot load: no operation    *)
(* removes a hash from the used-hash list; a join that adds an agent adds  *)
(* to the list a hash that was not in it; and a join that submits a hash   *)
(* of the list, in either case, ends with 409 and changes nothing.         *)
(***************************************************************************)
Used(ws) == SeqSet(ws.entry.used_tx_hashes)

UsedHashRejected(ws) ==
    \A h \in TxHashes \ {""}, d \in Deposits, rpc \in RpcAnswers :
        strip_lower(h) \in Used(ws) =>
            join_handler(ws, FALSE, d, h, rpc) = HttpError(ws, 409)

AcceptedHashIsNew(old, new) ==
    \E h \in TxHashes \ {""} :
        /\ strip_lower(h) \notin Used(old)
        /\ new.entry.used_tx_hashes = Append(old.entry.used_tx_hashes, strip_lower(h))

C25_UsedHashNeverAcceptedAgain ==
    [][~ALLOW_FREE_JOIN =>
          /\ Used(world_state) \subseteq Used(world_state')
          /\ UsedHashRejected(world_state')
          /\ (last'.op = "join" /\ last'.code = 200) =>
                 AcceptedHashIsNew(world_state, world_state')
          /\ (last'.op = "join" /\ last'.code # 200) =>
                 /\ world_state'.agents = world_state.agents
                 /\ world_state'.entry = world_state.entry]_vars

\* A join was refused with 409 in a world with no agent: the hash was
\* accepted before a reset or a load, and was still known after it.
C25_RejectedAfterReset ==
    /\ ~ALLOW_FREE_JOIN
    /\ last.op = "join"
    /\ last.code = 409
    /\ world_state.agents = <<>>
    /\ world_state.entry.used_tx_hashes = <<"0xaa">>
    /\ Len(world_state.logs) = 1
    /\ world_state.logs[1].event = "reset"


(***************************************************************************)
(* C26.  In token-gated mode a join adds an agent only after its entry     *)
(* transaction hash passed verification: a join without a hash fails with  *)
(* 402, a join whose verification fails raises what the verification       *)
(* raised, and in both cases the agent list and the used hashes are        *)
(* unchanged; a join that succeeds had a hash that verified, and adds one  *)
(* agent and that hash.                                                    *)
(***************************************************************************)
GatedJoin(ws, h, v, r) ==
    /\ h = "" => r.result = "HTTPException" /\ r.code = 402
    /\ (h # "" /\ v.result # "ok") => r.result = v.result /\ r.code = v.code
    /\ r.result # "ok" =>
          /\ r.ws.agents = ws.agents
          /\ r.ws.entry = ws.entry
    /\ r.result = "ok" =>
          /\ h # ""
          /\ v.result = "ok"
          /\ Len(r.ws.agents) = Len(ws.agents) + 1
          /\ r.ws.entry.used_tx_hashes = Append(ws.entry.used_tx_hashes, strip_lower(h))

C26_GatedJoinNeedsVerifiedHash ==
    ~ALLOW_FREE_JOIN =>
        \A h \in TxHashes, d \in Deposits, rpc \in RpcAnswers :
            GatedJoin(world_state, h, verify_entry_tx(world_state, h, rpc),
                      join_handler(world_state, ALLOW_FREE_JOIN, d, h, rpc))

\* A join without a hash was refused with 402 after a paid join: the
\* refusal is logged, and the one agent and the one used hash are as before.
C26_UnpaidJoinRefused ==
    /\ ~ALLOW_FREE_JOIN
    /\ last.op = "join"
    /\ last.code = 402
    /\ Len(world_state.agents) = 1
    /\ world_state.entry.used_tx_hashes = <<"0xaa">>
    /\ world_state.logs[Len(world_state.logs)].event = "entry_denied_missing_tx"


(***************************************************************************)
(* The API key guard (src/app.py:157-183): the middleware every request    *)
(* passes before its handler.  got is the value of the header named by     *)
(* API_KEY_HEADER_NAME ("" when the request has none); limited tells that  *)
(* the client's rate-limit bucket is full.  The result is the status the   *)
(* guard answers with, or 0 when it hands the request on to the handler.   *)
(***************************************************************************)
\* A faulty guard: the key header is never looked at.
security_guard_open(method, require_api_key, world_gate_key, got, limited) ==
    IF method = "POST" /\ limited THEN 429 ELSE 0

security_guard(method, require_api_key, world_gate_key, got, limited) ==
    IF method # "POST" THEN 0
    ELSE IF require_api_key /\ world_gate_key = "" THEN 500
    ELSE IF require_api_key /\ got # world_gate_key THEN 401
    ELSE IF limited THEN 429
    ELSE 0

\* The requests sent through the guard, and the key headers they carry.
GateCalls ==
    {[method |-> "POST", op |-> "reset", req |-> ActRequest(0, "", NonePayload)],
     [method |-> "POST", op |-> "scenario_basic", req |-> ActRequest(0, "", NonePayload)],
     [method |-> "POST", op |-> "join", req |-> ActRequest(0, "", NonePayload)],
     [method |-> "POST", op |-> "act", req |-> ActRequest(1, "earn", NonePayload)],
     [method |-> "GET", op |-> "get_world", req |-> ActRequest(0, "", NonePayload)]}

GateKeys == {"", "k1", "k2"}

\* call_next(request): the handler the request is routed to.
call_next(ws, allow_free_join, call) ==
    CASE call.op = "reset" -> Ok(reset_handler(ws, allow_free_join))
      [] call.op = "scenario_basic" -> Ok(scenario_basic(ws, allow_free_join))
      [] call.op = "join" -> join_handler(ws, allow_free_join, 2, "", "ok")
      [] call.op = "act" -> act_handler(ws, call.req)
      [] call.op = "get_world" -> Ok(ws)

\* The guard answered g to the call, whose handler would end with r.
Guarded(call, g, r) ==
    IF g = 0
    THEN /\ world_state' = r.ws
         /\ last' = Last(call.op, r.result, r.code, 0, <<>>, <<>>)
    ELSE /\ world_state' = world_state
         /\ last' = Last(call.op, "JSONResponse", g, 0, <<>>, <<>>)

GateRequest ==
    \E call \in GateCalls, got \in GateKeys, limited \in BOOLEAN :
        /\ requests < MaxRequests
        /\ requests' = requests + 1
        /\ request' = [method |-> call.method, header |-> got]
        /\ Guarded(call,
                   security_guard(call.method, REQUIRE_API_KEY, WORLD_GATE_KEY, got, limited),
                   call_next(world_state, ALLOW_FREE_JOIN, call))
        /\ UNCHANGED <<config, snapshot_file, WORLD_STATE_LOCK, pc, seen>>

\* Start-up with any API key configuration.
InitGate ==
    /\ world_state = make_initial_world_state
    /\ ALLOW_FREE_JOIN \in BOOLEAN
    /\ last = Last("start", "ok", 200, 0, <<>>, <<>>)
    /\ requests = 0
    /\ snapshot_file = Snapshot("missing", EmptyRawWorld)
    /\ WORLD_STATE_LOCK = FreeLock
    /\ pc = [t \in Threads |-> Idle("")]
    /\ seen = Answer(make_initial_world_state, make_initial_world_state,
                     make_initial_world_state)
    /\ REQUIRE_API_KEY \in BOOLEAN
    /\ WORLD_GATE_KEY \in GateKeys \ {"k2"}
    /\ request = [method |-> "POST", header |-> ""]

SpecGate == InitGate /\ [][GateRequest]_vars

(***************************************************************************)
(* C27.  When REQUIRE_API_KEY is on and a key is configured, a POST        *)
(* request reaches its handler only if its key header equals               *)
(* WORLD_GATE_KEY; a POST without the header or with another value is      *)
(* answered 401 by the guard, the handler is not run and the world is      *)
(* unchanged.  When REQUIRE_API_KEY is on and WORLD_GATE_KEY is empty,     *)
(* every POST is answered 500 by the guard and the world is unchanged.     *)
(***************************************************************************)
HandlerRan == last'.result # "JSONResponse"

RefusedWith(code) ==
    /\ last'.result = "JSONResponse"
    /\ last'.code = code
    /\ world_state' = world_state

C27_KeyGuardsPosts ==
    [][(REQUIRE_API_KEY /\ request'.method = "POST") =>
          /\ HandlerRan => (WORLD_GATE_KEY # "" /\ request'.header = WORLD_GATE_KEY)
          /\ (WORLD_GATE_KEY # "" /\ request'.header # WORLD_GATE_KEY) => RefusedWith(401)
          /\ WORLD_GATE_KEY = "" => RefusedWith(500)]_vars

\* C27 as stated: with REQUIRE_API_KEY on, a POST whose header is missing
\* or differs from WORLD_GATE_KEY is answered 401, and a POST reaches its
\* handler only with the right header.
C27_WrongKeyAnswered401 ==
    [][(REQUIRE_API_KEY /\ request'.method = "POST") =>
          /\ HandlerRan => request'.header = WORLD_GATE_KEY
          /\ request'.header # WORLD_GATE_KEY => RefusedWith(401)]_vars

\* A POST with the wrong key was answered 401 after one with the right key
\* had loaded the scenario: the three agents are still there.
C27_WrongKeyRefused ==
    /\ REQUIRE_API_KEY
    /\ WORLD_GATE_KEY = "k1"
    /\ request = [method |-> "POST", header |-> "k2"]
    /\ last.op = "reset"
    /\ last.result = "JSONResponse"
    /\ last.code = 401
    /\ Len(world_state.agents) = 3


(***************************************************************************)
(* Successive auto ticks on two auto earners at the workshop               *)
(* (src/tests/test_core_mvp.py:400-442).  last counts the auto ticks made  *)
(* and collects what their tick steps and their decisions did.             *)
(***************************************************************************)
StreakTicks == 8

InitStreak ==
    /\ \E b1 \in {0, 2, 10}, b2 \in {0, 1, 2}, cap \in {1, 2} :
          world_state =
              [make_initial_world_state EXCEPT
                  !.agents = <<Agent(1, b1, "workshop", TRUE, "earn"),
                               Agent(2, b2, "workshop", TRUE, "earn")>>,
                  !.economy = [workshop_capacity_per_tick |-> cap,
                               workshop_capacity_left |-> cap]]
    /\ ALLOW_FREE_JOIN \in BOOLEAN
    /\ last = Last("auto_ticks", "ok", 200, 0, <<>>, <<>>)
    /\ requests = 0
    /\ snapshot_file = Snapshot("missing", EmptyRawWorld)
    /\ WORLD_STATE_LOCK = FreeLock
    /\ pc = [t \in Threads |-> Idle("")]
    /\ seen = Answer(make_initial_world_state, make_initial_world_state,
                     make_initial_world_state)
    /\ REQUIRE_API_KEY = FALSE
    /\ WORLD_GATE_KEY = ""
    /\ request = [method |-> "POST", header |-> ""]

\* One more auto_tick(limit_agents=50), which ended with r.
StreakTicked(r) ==
    /\ r.raised = ""
    /\ world_state' = r.ws
    /\ last' = Last("auto_ticks", "ok", 200, last.n + 1, last.trace \o r.trace,
                    last.ds \o r.ds)
    /\ requests' = requests + 1
    /\ UNCHANGED <<config, snapshot_file, WORLD_STATE_LOCK, pc, seen, request>>

StreakTick ==
    /\ last.n < StreakTicks
    /\ StreakTicked(auto_tick(world_state, Len(world_state.agents)))

SpecStreak == InitStreak /\ [][StreakTick]_vars

(***************************************************************************)
(* C28.  An auto agent with goal earn that suffers a streak of capacity    *)
(* denials has its goal overridden and later restored: with two auto earn  *)
(* agents at the workshop and capacity 1, eight successive auto ticks log  *)
(* earn_denied_capacity, adaptive_goal_override and goal_restore, and the  *)
(* starved agent's goal is earn at the end.                                *)
(***************************************************************************)
\* The names of the events logged by the auto ticks made so far.
StreakEvents ==
    {"tick"}
    \cup UNION {UNION {{last.trace[s].outs[i].ev[j].event :
                          j \in 1..Len(last.trace[s].outs[i].ev)} :
                       i \in 1..Len(last.trace[s].outs)} :
                s \in 1..Len(last.trace)}
    \cup {DecisionEvents(last.ds, world_state.agents, 0)[j].event :
            j \in 1..Len(DecisionEvents(last.ds, world_state.agents, 0))}

C28_StreakOverridesAndRestores ==
    (/\ last.op = "auto_ticks"
     /\ last.n = StreakTicks
     /\ world_state.economy.workshop_capacity_per_tick = 1) =>
        /\ {"earn_denied_capacity", "adaptive_goal_override", "goal_restore"}
              \subseteq StreakEvents
        /\ world_state.agents[2].goal = "earn"


(***************************************************************************)
(* C29.  auto_tick is one autonomy step followed by exactly one tick step: *)
(* the tick counter grows by exactly 1, and the one step's queue is the    *)
(* queue as it was followed by the actions the autonomy step generated,    *)
(* every one of which the step processes.  (That no other thread comes     *)
(* between the two is the lock discipline of C23: auto_tick holds the lock *)
(* around both, tick taking it a second time.)                             *)
(***************************************************************************)
C29_AutoTickIsStepThenOneTick ==
    [][last'.op = "auto_tick" =>
          /\ world_state'.tick = world_state.tick + 1
          /\ Len(last'.trace) = 1
          /\ last'.trace[1].queue = world_state.action_queue \o ChosenActions(last'.ds)
          /\ \A i \in (Len(world_state.action_queue) + 1)..Len(last'.trace[1].queue) :
                /\ i <= Len(last'.trace[1].outs)
                /\ last'.trace[1].outs[i].raised = ""
          /\ world_state'.action_queue = <<>>]_vars


(***************************************************************************)
(* C30.  In an autonomy step the reactive branch decides for an agent      *)
(* exactly when its last_denied_reason is "capacity" and the tick is at    *)
(* most its last_denied_tick + 1, in cooldown or not; and after the        *)
(* decision, reactive or not, the agent has neither last_denied_reason nor *)
(* last_denied_tick.  (Stated for POST /auto/step: the tick step of        *)
(* auto_tick may deny the agent again.)                                    *)
(***************************************************************************)
ReactiveBranch(d) == d.branch \in {"reactive", "reactive_no_funds"}

DeniedFlagsCleared(agent) ==
    /\ agent.last_denied_reason = MissingV
    /\ agent.last_denied_tick = MissingV

C30_ReactiveOnceThenCleared ==
    [][last'.op = "auto_step" =>
          \A j \in 1..Len(last'.ds) :
              /\ ReactiveBranch(last'.ds[j]) <=>
                    RecentlyDenied(world_state.agents[last'.ds[j].k], world_state.tick)
              /\ DeniedFlagsCleared(world_state'.agents[last'.ds[j].k])]_vars

(***************************************************************************)
(* C31: when the reactive branch of an autonomy step at tick t enqueues    *)
(* its one-shot move, the agent's cooldown_until_tick after the decision   *)
(* is the larger of its previous cooldown_until_tick and t + 1: the        *)
(* penalty of the capacity denial (t + 2 when the denial happened at tick  *)
(* t) is not shortened by the reaction.                                    *)
(***************************************************************************)
ReactiveMove(d) == d.branch = "reactive" /\ d.chosen # <<>>

CooldownAfter(ws, ws2, d, until) == ReactiveMove(d) => ws2.agents[d.k].cooldown_until_tick = until

C31_ReactiveMoveKeepsLargerCooldown ==
    [][last'.op = "auto_step" =>
          \A j \in 1..Len(last'.ds) :
              CooldownAfter(world_state, world_state', last'.ds[j],
                            IF world_state.agents[last'.ds[j].k].cooldown_until_tick
                                   >= world_state.tick + 1
                            THEN world_state.agents[last'.ds[j].k].cooldown_until_tick
                            ELSE world_state.tick + 1)]_vars

\* The claim as stated: after the reactive move the cooldown is t + 1.
C31_ReactiveMoveSetsTickPlusOne ==
    [][last'.op = "auto_step" =>
          \A j \in 1..Len(last'.ds) :
              CooldownAfter(world_state, world_state', last'.ds[j], world_state.tick + 1)]_vars

\* An autonomy step, run at the tick of a capacity denial written by tick
\* itself, reacted with a move; the agent's cooldown is still the penalty,
\* tick + 2, and its denial flags are gone.
C31_ReactedInsidePenalty ==
    /\ last.op = "auto_step"
    /\ world_state.tick >= 1
    /\ \E j \in 1..Len(last.ds) :
          /\ ReactiveMove(last.ds[j])
          /\ last.ds[j].chosen[1].queued_at_tick = world_state.tick
          /\ world_state.agents[last.ds[j].k].cooldown_until_tick = world_state.tick + 2
          /\ world_state.agents[last.ds[j].k].last_denied_reason = MissingV

(***************************************************************************)
(* C32: an autonomy step at tick t deciding for an agent with goal earn    *)
(* that is past the cooldown gate (t >= cooldown_until_tick) and has no    *)
(* recent capacity denial enqueues exactly one move to workshop if the     *)
(* agent is not at the workshop and can pay MOVE_COST_MON, nothing if it   *)
(* is not at the workshop and cannot pay, and exactly one earn of amount 1 *)
(* if it is at the workshop; in all three cases cooldown_until_tick is     *)
(* t + 1 afterwards.                                                       *)
(***************************************************************************)
EarnGoalChoice(t, agent) ==
    IF agent.pos # "workshop"
    THEN IF agent.balance_mon >= MOVE_COST_MON
         THEN <<Action(t, IntV(agent.id), StrV("move"), MovePayload(StrV("workshop")))>>
         ELSE <<>>
    ELSE <<Action(t, IntV(agent.id), StrV("earn"), EarnPayload(IntV(1)))>>

EarnGoalApplies(ws, k) ==
    /\ ws.agents[k].goal = "earn"
    /\ ~InCooldown(ws, k)
    /\ ~RecentlyDenied(ws.agents[k], ws.tick)

C32_EarnGoalDecision ==
    [][last'.op = "auto_step" =>
          \A j \in 1..Len(last'.ds) :
              EarnGoalApplies(world_state, last'.ds[j].k) =>
                  /\ last'.ds[j].chosen =
                        EarnGoalChoice(world_state.tick, world_state.agents[last'.ds[j].k])
                  /\ world_state'.agents[last'.ds[j].k].cooldown_until_tick
                        = world_state.tick + 1]_vars

\* One autonomy step decided for two earners away from the workshop: nothing
\* for the first, which has no balance, a move to workshop for the second;
\* both have their cooldown at tick + 1.
C32_BrokeEarnerWaitsPayingEarnerMoves ==
    /\ last.op = "auto_step"
    /\ Len(last.ds) = 2
    /\ last.ds[1].branch = "earn_no_funds" /\ last.ds[1].chosen = <<>>
    /\ last.ds[2].branch = "earn_move"
    /\ last.ds[2].chosen[1].payload = MovePayload(StrV("workshop"))
    /\ world_state.action_queue = last.ds[2].chosen
    /\ \A j \in 1..2 :
          world_state.agents[last.ds[j].k].cooldown_until_tick = world_state.tick + 1

(***************************************************************************)
(* C33: act refuses a transfer whose receiver is not among the agents, and *)
(* tick looks the receiver up again: a queued transfer of an existing      *)
(* sender with a positive integer receiver id other than the sender's and  *)
(* a positive integer amount, whose receiver is not among the agents when  *)
(* the action is processed, is denied with transfer_denied_unknown_target, *)
(* is not counted as applied and changes no balance.                       *)
(***************************************************************************)
TransferToMissing(a, agents) ==
    /\ IsTransfer(a)
    /\ a.payload.kind # "bad"
    /\ PositiveInt(dict_get(or_empty(a.payload).to_agent_id))
    /\ PositiveInt(dict_get(or_empty(a.payload).amount))
    /\ or_empty(a.payload).to_agent_id.i # a.agent_id.i
    /\ AgentIndex(agents, a.agent_id.i) # 0
    /\ AgentIndex(agents, or_empty(a.payload).to_agent_id.i) = 0

DeniedUnknownTarget(a, out) ==
    /\ out.applied = 0
    /\ out.raised = ""
    /\ out.ev = <<[event |-> "transfer_denied_unknown_target", agent_id |-> a.agent_id.i]>>
    /\ out.post = out.pre

EnqueueChecksReceiver(req, r) ==
    (~SenderMissing(req) /\ ReceiverMissing(req)) => r.code # 200 /\ r.ws = world_state

C33_ReceiverRecheckedAtApply ==
    /\ \A req \in ActRequests : EnqueueChecksReceiver(req, act_handler(world_state, req))
    /\ \A p \in ProcessedActions :
          TransferToMissing(TickTrace[p[1]].queue[p[2]], TickTrace[p[1]].outs[p[2]].pre.agents)
              => DeniedUnknownTarget(TickTrace[p[1]].queue[p[2]], TickTrace[p[1]].outs[p[2]])

\* A tick processed a transfer of one unit from agent 1, who had two, to
\* an agent 9 that does not exist, and the act request for the same
\* transfer is refused in the resulting world.
C33_TransferToGoneAgentDenied ==
    /\ last.op = "tick"
    /\ \E p \in ProcessedActions :
          /\ TransferToMissing(TickTrace[p[1]].queue[p[2]],
                               TickTrace[p[1]].outs[p[2]].pre.agents)
          /\ HasEvent(TickTrace[p[1]].outs[p[2]], "transfer_denied_unknown_target")
          /\ Balances(TickTrace[p[1]].outs[p[2]].pre.agents) = Balances(world_state.agents)
    /\ \E k \in 1..Len(world_state.agents) :
          world_state.agents[k].id = 1 /\ world_state.agents[k].balance_mon >= 1
    /\ act_handler(world_state, ActRequest(1, "transfer", TransferPayload(IntV(3), IntV(1)))).code
          = 404

(***************************************************************************)
(* C34: a successful act appends one action at the tail of the queue, with *)
(* the request's agent and type and queued_at_tick the current tick, and   *)
(* logs one queued_action event; every action the policy generates in an   *)
(* autonomy step is appended likewise, each after its queued_action event. *)
(* Hence reset and the scenarios leave every pending action (there is      *)
(* none) tagged with the current tick, and every operation but a snapshot  *)
(* load keeps it so.                                                       *)
(***************************************************************************)
QueueTagged(ws) ==
    \A i \in 1..Len(ws.action_queue) :
        ws.action_queue[i].isdict /\ ws.action_queue[i].queued_at_tick = ws.tick

EnqueuedAtTail(ws, ws2, agent_id) ==
    /\ Len(ws2.action_queue) = Len(ws.action_queue) + 1
    /\ ws2.action_queue = Append(ws.action_queue, ws2.action_queue[Len(ws2.action_queue)])
    /\ ws2.action_queue[Len(ws2.action_queue)].queued_at_tick = ws.tick
    /\ ws2.action_queue[Len(ws2.action_queue)].agent_id = IntV(agent_id)
    /\ ws2.logs = TruncateLogs(Append(ws.logs, LogEvent(ws.tick, "queued_action", agent_id)))
    /\ ws2.tick = ws.tick

PolicyEnqueued(ws, ws2, ds) ==
    /\ ws2.action_queue = ws.action_queue \o ChosenActions(ds)
    /\ \A j \in 1..Len(ds) :
          ds[j].chosen # <<>> => ds[j].chosen[1].queued_at_tick = ws.tick
    /\ ws2.logs = TruncateLogs(ws.logs \o DecisionEvents(ds, ws.agents, ws.tick))

C34_EnqueueTagsWithCurrentTick ==
    [][/\ (last'.op = "act" /\ last'.code = 200) =>
              EnqueuedAtTail(world_state, world_state', last'.n)
       /\ last'.op = "auto_step" => PolicyEnqueued(world_state, world_state', last'.ds)
       /\ last'.op \in {"reset", "scenario_basic", "scenario_basic_auto"} =>
              QueueTagged(world_state')
       /\ (last'.op # "load" /\ QueueTagged(world_state)) => QueueTagged(world_state')]_vars

\* After the auto scenario and a tick, an act (a say) and an autonomy step
\* each left one action pending; both are tagged with the current tick,
\* which is not 0.
C34_TwoPendingAtCurrentTick ==
    /\ last.op = "auto_step"
    /\ world_state.tick >= 1
    /\ Len(world_state.action_queue) = 2
    /\ last.ds # <<>>
    /\ last.ds[Len(last.ds)].chosen = <<world_state.action_queue[2]>>
    /\ QueueTagged(world_state)
    /\ world_state.action_queue[1].type = StrV("say")
    /\ Len(world_state.agents) = 3

(***************************************************************************)
(* C35: no request to the outside world is in flight while the world lock  *)
(* is held: a thread that waits for the answer of the RPC node to the      *)
(* entry verification of a token-gated join does not own the lock, so no   *)
(* other thread's tick, act or autonomy step waits for that answer.        *)
(***************************************************************************)
C35_NoRpcWhileLockHeld ==
    \A t \in Threads :
        pc[t].at = "rpc" =>
            /\ WORLD_STATE_LOCK.owner # t
            /\ \A u \in Threads : pc[u].at = "lock" => WORLD_STATE_LOCK.owner = 0

(***************************************************************************)
(* C36: every step of tick(steps), and the one step of an auto tick,       *)
(* appends exactly one tick event, after the outcome events of the step,   *)
(* whose applied_actions is the number of actions of the step that were    *)
(* applied (a move, earn, say or transfer event was logged for them;       *)
(* denied and skipped actions do not count); the call makes all its steps  *)
(* and returns as applied_actions the sum over them.                       *)
(***************************************************************************)
WasApplied(out) == \E e \in {"move", "earn", "say", "transfer"} : HasEvent(out, e)

CountApplied(step) == Cardinality({i \in 1..Len(step.outs) : WasApplied(step.outs[i])})

RECURSIVE StepsEvents(_)
\* What the steps log: per step its outcome events, then its tick event.
StepsEvents(trace) ==
    IF trace = <<>> THEN <<>>
    ELSE OutEvents(Head(trace).outs)
         \o <<[event |-> "tick", agent_id |-> 0,
               applied_actions |-> CountApplied(Head(trace))]>>
         \o StepsEvents(Tail(trace))

RECURSIVE SumCounts(_)
SumCounts(trace) ==
    IF trace = <<>> THEN 0 ELSE CountApplied(Head(trace)) + SumCounts(Tail(trace))

\* The log ends with the events es, tick events with their counts, as far
\* as the log reaches back.
LogEndsWithCounts(logs, es) ==
    \A j \in 1..MAX_LOGS :
        (j <= Len(es) /\ j <= Len(logs)) =>
            /\ logs[Len(logs) - j + 1].event = es[Len(es) - j + 1].event
            /\ logs[Len(logs) - j + 1].agent_id = es[Len(es) - j + 1].agent_id
            /\ es[Len(es) - j + 1].event = "tick" =>
                  logs[Len(logs) - j + 1].applied_actions
                      = es[Len(es) - j + 1].applied_actions

TickCounts(call, logs) ==
    /\ call.result = "ok"
    /\ Len(call.trace) = IF call.op = "tick" THEN call.n ELSE 1
    /\ LogEndsWithCounts(logs, StepsEvents(call.trace))
    /\ call.applied_actions = SumCounts(call.trace)

C36_OneTickEventPerStepWithCount ==
    last.op \in {"tick", "auto_tick"} => TickCounts(last, world_state.logs)

(***************************************************************************)
(* C37: join, act, tick, the autonomy step and auto tick never lower an    *)
(* agent's cooldown_until_tick; reset and the scenarios leave every        *)
(* cooldown_until_tick at most tick + 2, and each of these operations      *)
(* keeps it so: in every state reached from reset without a snapshot load  *)
(* cooldown_until_tick <= tick + 2 for every agent.                        *)
(***************************************************************************)
CooldownBounded(ws) ==
    \A k \in 1..Len(ws.agents) : ws.agents[k].cooldown_until_tick <= ws.tick + 2

CooldownKept(ws, ws2) ==
    /\ Len(ws2.agents) >= Len(ws.agents)
    /\ \A k \in 1..Len(ws.agents) :
          /\ ws2.agents[k].id = ws.agents[k].id
          /\ ws2.agents[k].cooldown_until_tick >= ws.agents[k].cooldown_until_tick

C37_CooldownMonotoneAndBounded ==
    [][/\ last'.op \in {"reset", "scenario_basic", "scenario_basic_auto"} =>
              CooldownBounded(world_state')
       /\ last'.op \in {"join", "act", "tick", "auto_step", "auto_tick"} =>
              /\ CooldownKept(world_state, world_state')
              /\ CooldownBounded(world_state) => CooldownBounded(world_state')]_vars

\* After the auto scenario an auto tick denied an earn for capacity: the
\* agent's cooldown is the penalty, tick + 2, the bound itself.
C37_PenaltyReachesBound ==
    /\ last.op = "auto_tick"
    /\ last.result = "ok"
    /\ Len(world_state.agents) = 3
    /\ world_state.agents[3].balance_mon = 0
    /\ CooldownBounded(world_state)
    /\ \E k \in 1..Len(world_state.agents) :
          /\ world_state.agents[k].cooldown_until_tick = world_state.tick + 2
          /\ world_state.agents[k].last_denied_tick = IntV(world_state.tick)
    /\ \E p \in ProcessedActions :
          HasEvent(TickTrace[p[1]].outs[p[2]], "earn_denied_capacity")

(***************************************************************************)
(* C38: money accounting of a tick step.  Each processed action changes    *)
(* the sum of the agents' balances by the amount of the earn when an earn  *)
(* was applied, by minus MOVE_COST_MON when a move was applied, and by     *)
(* nothing otherwise (say, transfer, every denial and skip); the agents    *)
(* change only through the processed actions, so over a step the sum       *)
(* changes by the amounts of the applied earns minus MOVE_COST_MON times   *)
(* the number of applied moves.  A move to the agent's current position,   *)
(* which it can pay, is applied and charged like any other.                *)
(***************************************************************************)
RECURSIVE TotalBalance(_)
TotalBalance(agents) ==
    IF agents = <<>> THEN 0 ELSE Head(agents).balance_mon + TotalBalance(Tail(agents))

\* The amount an earn credits: payload.amount, 1 when absent.
EarnAmount(a) == to_int(dict_get_default(or_empty(a.payload).amount, IntV(1)), 0)

MoneyDelta(a, out) ==
    IF HasEvent(out, "earn") THEN EarnAmount(a)
    ELSE IF HasEvent(out, "move") THEN 0 - MOVE_COST_MON
    ELSE 0

RECURSIVE StepDelta(_, _, _)
StepDelta(queue, outs, i) ==
    IF i > Len(outs) THEN 0
    ELSE MoneyDelta(queue[i], outs[i]) + StepDelta(queue, outs, i + 1)

\* The agents after the step: those the last processed action left.
StepAccounts(step, before, after) ==
    step.outs # <<>> =>
        /\ \A i \in 1..(Len(step.outs) - 1) : step.outs[i + 1].pre = step.outs[i].post
        /\ step.outs[1].pre.agents = before
        /\ TotalBalance(step.outs[Len(step.outs)].post.agents)
              = TotalBalance(before) + StepDelta(step.queue, step.outs, 1)
        /\ after = step.outs[Len(step.outs)].post.agents

MoveInPlace(a, agents) ==
    /\ IsMove(a)
    /\ AgentIndex(agents, a.agent_id.i) # 0
    /\ MoveTargetValid(a)
    /\ MoveTarget(a).s = agents[AgentIndex(agents, a.agent_id.i)].pos
    /\ agents[AgentIndex(agents, a.agent_id.i)].balance_mon >= MOVE_COST_MON

ActionAccounts(a, out) ==
    /\ TotalBalance(out.post.agents) = TotalBalance(out.pre.agents) + MoneyDelta(a, out)
    /\ MoveInPlace(a, out.pre.agents) =>
          /\ out.applied = 1
          /\ HasEvent(out, "move")
          /\ TotalBalance(out.post.agents) = TotalBalance(out.pre.agents) - MOVE_COST_MON

C38_TickStepMoneyAccounting ==
    [][last'.op \in {"tick", "auto_tick"} =>
          /\ \A s \in 1..Len(last'.trace) :
                \A i \in 1..Len(last'.trace[s].outs) :
                    ActionAccounts(last'.trace[s].queue[i], last'.trace[s].outs[i])
          /\ (last'.op = "tick" /\ Len(last'.trace) = 1) =>
                StepAccounts(last'.trace[1], world_state.agents, world_state'.agents)]_vars

\* One tick step applied two moves of the same agent to the same place:
\* the second found the agent already there and was charged all the same.
C38_MoveInPlaceCharged ==
    /\ last.op = "tick"
    /\ Len(last.trace) = 1
    /\ Len(last.trace[1].outs) = 2
    /\ \A i \in 1..2 : HasEvent(last.trace[1].outs[i], "move")
    /\ MoveInPlace(last.trace[1].queue[2], last.trace[1].outs[2].pre.agents)
    /\ TotalBalance(world_state.agents)
          = TotalBalance(last.trace[1].outs[1].pre.agents) - 2 * MOVE_COST_MON


(***************************************************************************)
(* C39.  The handlers that call other locking handlers while they hold the *)
(* world lock (auto_tick calling tick, demo_run calling scenario_basic and *)
(* tick) always complete and leave the lock free: the thread that reaches  *)
(* the inner `with WORLD_STATE_LOCK:` owns the lock, so that entry does    *)
(* not wait; from its first entry to its last exit the thread owns the     *)
(* lock once per block it is in and no other thread is inside a block;     *)
(* the exit of the outermost block frees the lock; and, the threads being  *)
(* scheduled fairly, the handler ends.                                     *)
(***************************************************************************)
CallsLockingHandlers(t) == pc[t].op \in {"auto_tick", "demo_run"} /\ InBlock(t)

ReentryDoesNotWait ==
    \A t \in Threads :
        pc[t].at \in {"tick_lock", "scenario_lock"} =>
            /\ CallsLockingHandlers(t)
            /\ WORLD_STATE_LOCK.owner = t
            /\ WORLD_STATE_LOCK.count >= 1

OthersExcluded ==
    \A t \in Threads :
        CallsLockingHandlers(t) =>
            /\ WORLD_STATE_LOCK = [owner |-> t, count |-> pc[t].depth]
            /\ pc[t].depth \in 1..2
            /\ \A u \in Threads \ {t} : ~InBlock(u)

OutermostExitFrees ==
    \A t \in Threads :
        CallsLockingHandlers(t) =>
            /\ pc[t].depth > 1 => pc'[t].at # "idle" /\ WORLD_STATE_LOCK'.owner = t
            /\ pc'[t].at = "idle" => pc[t].depth = 1 /\ WORLD_STATE_LOCK' = FreeLock

\* The statements a thread is at change the state when they run.
StatementsAdvance ==
    \A t \in Threads :
        pc[t].at \in {"begin", "queue", "find", "log", "step", "body", "gate",
                      "rpc", "demo", "scenario", "demo_move", "demo_earn"} =>
            \/ statement(pc[t], world_state, ALLOW_FREE_JOIN).at # pc[t].at
            \/ statement(pc[t], world_state, ALLOW_FREE_JOIN).ws # world_state

C39_NestedLockingCompletes ==
    /\ [](ReentryDoesNotWait /\ OthersExcluded /\ StatementsAdvance)
    /\ [][OutermostExitFrees]_vars
    /\ \A t \in Threads : CallsLockingHandlers(t) ~> (pc[t].at = "idle")

\* Thread 1 runs demo_run on the empty world and is inside the tick that
\* follows its earn and say, holding the lock twice, after the basic
\* scenario and a first tick; thread 2 waits for the lock.
C39_DemoRunInSecondTickOtherWaits ==
    /\ pc[1].op = "demo_run"
    /\ pc[1].at = "queue"
    /\ pc[1].resume = "return"
    /\ world_state.tick = 2
    /\ Len(world_state.agents) = 3
    /\ WORLD_STATE_LOCK = [owner |-> 1, count |-> 2]
    /\ pc[2].at = "lock"


(***************************************************************************)
(* C40.  An agent with balance 0 that is not at the workshop is stuck: act, *)
(* tick, the autonomy step, auto tick and market buy leave its position    *)
(* and its balance as they are, unless the ticks of the operation applied  *)
(* a transfer of another agent to it; and the autonomy step, alone or in   *)
(* auto tick, chooses no action for it.                                    *)
(***************************************************************************)
Stuck(agent) == agent.balance_mon = 0 /\ agent.pos # "workshop"

\* A tick of the call applied a transfer whose receiver is agent k.
ReceivedTransfer(call, k) ==
    \E s \in 1..Len(call.trace) :
        \E i \in 1..Len(call.trace[s].outs) :
            /\ HasEvent(call.trace[s].outs[i], "transfer")
            /\ AgentIndex(call.trace[s].outs[i].pre.agents,
                          or_empty(call.trace[s].queue[i].payload).to_agent_id.i) = k

StaysStuck(ws, ws2, call) ==
    \A k \in 1..Len(ws.agents) :
        Stuck(ws.agents[k]) =>
            /\ Len(ws2.agents) >= k
            /\ ws2.agents[k].id = ws.agents[k].id
            /\ ~ReceivedTransfer(call, k) =>
                  /\ ws2.agents[k].pos = ws.agents[k].pos
                  /\ ws2.agents[k].balance_mon = 0
            /\ \A j \in 1..Len(call.ds) : call.ds[j].k = k => call.ds[j].chosen = <<>>

C40_BrokeAgentAwayFromWorkshopIsStuck ==
    [][last'.op \in {"act", "tick", "auto_step", "auto_tick", "market_buy"} =>
          StaysStuck(world_state, world_state', last')]_vars

\* An agent joined with no deposit and was set to decide for itself; a move
\* to the workshop was submitted for it; the auto tick chose nothing for
\* it and denied the move: it is at spawn with balance 0.
C40_PolicySilentAndMoveDenied ==
    /\ last.op = "auto_tick"
    /\ last.result = "ok"
    /\ Len(world_state.agents) = 1
    /\ Stuck(world_state.agents[1])
    /\ world_state.agents[1].pos = "spawn"
    /\ Len(last.ds) = 1
    /\ last.ds[1].k = 1
    /\ last.ds[1].chosen = <<>>
    /\ \E p \in ProcessedActions :
          /\ HasEvent(TickTrace[p[1]].outs[p[2]], "move_denied_insufficient_funds")
          /\ IsMove(TickTrace[p[1]].queue[p[2]])

====
